---- MODULE Spec2Model ----
(***************************************************************************)
(* Provider streaming and usage accounting: VertexHandler.createMessage    *)
(* (an async generator over the native @google/genai stream), the usage    *)
(* snapshot it keeps, and calculateCostGenai, which prices the terminal    *)
(* usage event.                                                            *)
(*                                                                         *)
(* Encoding.  A JavaScript value that may be undefined is a sequence of    *)
(* length 0 (undefined) or 1 (the value).  A string is a sequence of its   *)
(* pieces, so that "" is <<>> and concatenation is \o.  A price is an      *)
(* integer count of 1e-5 dollars per 1,000,000 tokens and a cost is an     *)
(* integer count of 1e-11 dollars, which keeps the arithmetic of           *)
(* calculateCostGenai exact.                                               *)
(***************************************************************************)
EXTENDS Integers, Sequences, FiniteSets, TLC

\* ------------------------------------------------------------------------
\* Bounds
\* ------------------------------------------------------------------------

\* Total number of native chunks the transport delivers, over all streams.
MaxChunks == 3

\* Largest base price a model info of the pricing specification carries.
MaxPrice == 2

\* Largest token count passed to calculateCostGenai.
MaxTokens == 2
MaxBlocks == 2
MaxTotal == 2
MaxCalls == 3
MaxDisposals == 2
MaxAccess == 5

\* The capacity of the highlight cache, scaled down from the 500 of the
\* source so that a full cache is reached.
maxSize == 3

\* The largest capacity a MessageCache is constructed with, and the largest
\* number of messages a task holds.
MaxCapacity == 3
MaxMessages == 4

\* The callers that may have a MessageCache call in progress at the same
\* time.
Callers == {1, 2}

\* ------------------------------------------------------------------------
\* JavaScript values
\* ------------------------------------------------------------------------

Undefined == <<>>

Some(v) == <<v>>

IsDefined(x) == x # Undefined

\* x ?? d
OrElse(x, d) == IF IsDefined(x) THEN x[1] ELSE d

\* Truthiness of an optional number: undefined and 0 are falsy.
TruthyNumber(x) == IsDefined(x) /\ x[1] # 0

\* Defined-only variant of TruthyText (the test `chunk.text !== undefined`).
TruthyTextDefinedOnly(t) == IsDefined(t)

\* Truthiness of an optional string: undefined and "" are falsy.
TruthyText(t) == IsDefined(t) /\ t[1] # <<>>

\* ------------------------------------------------------------------------
\* Pricing: calculateCostGenai
\* ------------------------------------------------------------------------

\* Variant of FindTier with a strict comparison (inputTokens < contextWindow).
FindTierStrict(tiers, inputTokens) ==
    LET hits == {i \in 1..Len(tiers) : inputTokens < tiers[i].contextWindow}
    IN  IF hits = {} THEN <<>>
        ELSE <<tiers[CHOOSE i \in hits : \A j \in hits : i <= j]>>

\* Variant of FindTier that returns the last qualifying tier of the list.
FindTierLast(tiers, inputTokens) ==
    LET hits == {i \in 1..Len(tiers) : inputTokens <= tiers[i].contextWindow}
    IN  IF hits = {} THEN <<>>
        ELSE <<tiers[CHOOSE i \in hits : \A j \in hits : i >= j]>>

\* Array.prototype.find over the price tiers: the first tier, in list
\* order, with inputTokens <= tier.contextWindow; undefined when none.
FindTier(tiers, inputTokens) ==
    LET hits == {i \in 1..Len(tiers) : inputTokens <= tiers[i].contextWindow}
    IN  IF hits = {} THEN Undefined
        ELSE Some(tiers[CHOOSE i \in hits : \A j \in hits : i <= j])

\* Variant of MissingPricing that tests the fields for undefined only.
MissingPricingDefinedOnly(info) ==
    \/ ~IsDefined(info.inputPrice)
    \/ ~IsDefined(info.outputPrice)
    \/ ~IsDefined(info.cacheReadsPrice)

\* !info.inputPrice || !info.outputPrice || !info.cacheReadsPrice
MissingPricing(info) ==
    \/ ~TruthyNumber(info.inputPrice)
    \/ ~TruthyNumber(info.outputPrice)
    \/ ~TruthyNumber(info.cacheReadsPrice)

\* Variant of TierPrice in which a field the tier omits is priced at 0.
TierPriceOrZero(tier, field, basePrice) ==
    IF IsDefined(tier) THEN OrElse(tier[1][field], 0) ELSE basePrice

\* tier.inputPrice ?? inputPrice, when a tier was found; else the base price.
TierPrice(tier, field, basePrice) ==
    IF IsDefined(tier) THEN OrElse(tier[1][field], basePrice) ELSE basePrice

\* Variant of UncachedInputTokens with the operands exchanged.
UncachedInputTokensSwapped(inputTokens, cacheReadTokens) ==
    cacheReadTokens - inputTokens

\* const uncachedInputTokens = inputTokens - cacheReadTokens
UncachedInputTokens(inputTokens, cacheReadTokens) ==
    inputTokens - cacheReadTokens

\* The body of calculateCostGenai after the guard on the base prices:
\* undefined base prices read as basePrices gives them.
CostFrom(info, basePrices, inputTokens, outputTokens, cacheReadTokens) ==
    LET tier == IF IsDefined(info.tiers)
                THEN FindTier(info.tiers[1], inputTokens)
                ELSE Undefined
        inputPrice == TierPrice(tier, "inputPrice", basePrices.inputPrice)
        outputPrice == TierPrice(tier, "outputPrice", basePrices.outputPrice)
        cacheReadsPrice == TierPrice(tier, "cacheReadsPrice", basePrices.cacheReadsPrice)
        uncachedInputTokens == UncachedInputTokens(inputTokens, cacheReadTokens)
        cacheReadCost == IF cacheReadTokens > 0
                         THEN cacheReadsPrice * cacheReadTokens
                         ELSE 0
        inputTokensCost == inputPrice * uncachedInputTokens
        outputTokensCost == outputPrice * outputTokens
    IN  inputTokensCost + outputTokensCost + cacheReadCost

\* Variant of calculateCostGenai without the guard: a missing base price is
\* priced at 0 and a partial number is returned.
calculateCostGenaiPartial(info, inputTokens, outputTokens, cacheReadTokensArg) ==
    Some(CostFrom(info,
                  [inputPrice |-> OrElse(info.inputPrice, 0),
                   outputPrice |-> OrElse(info.outputPrice, 0),
                   cacheReadsPrice |-> OrElse(info.cacheReadsPrice, 0)],
                  inputTokens, outputTokens, OrElse(cacheReadTokensArg, 0)))

\* Variant of calculateCostGenai that decides on the effective price
\* source: the guard is applied after the tier's prices were merged in.
calculateCostGenaiEffectiveSource(info, inputTokens, outputTokens, cacheReadTokensArg) ==
    LET tier == IF IsDefined(info.tiers)
                THEN FindTier(info.tiers[1], inputTokens)
                ELSE Undefined
        eff == [f \in {"inputPrice", "outputPrice", "cacheReadsPrice"} |->
                   IF IsDefined(tier) /\ IsDefined(tier[1][f]) THEN tier[1][f] ELSE info[f]]
    IN  IF \E f \in DOMAIN eff : ~TruthyNumber(eff[f])
        THEN Undefined
        ELSE Some(CostFrom(info,
                           [inputPrice |-> eff.inputPrice[1],
                            outputPrice |-> eff.outputPrice[1],
                            cacheReadsPrice |-> eff.cacheReadsPrice[1]],
                           inputTokens, outputTokens, OrElse(cacheReadTokensArg, 0)))

calculateCostGenai(info, inputTokens, outputTokens, cacheReadTokensArg) ==
    IF MissingPricing(info)
    THEN Undefined
    ELSE Some(CostFrom(info,
                       [inputPrice |-> info.inputPrice[1],
                        outputPrice |-> info.outputPrice[1],
                        cacheReadsPrice |-> info.cacheReadsPrice[1]],
                       inputTokens, outputTokens, OrElse(cacheReadTokensArg, 0)))

\* The model infos a provider is configured with: complete pricing, and
\* the same info with outputPrice left undefined.
mockInfo ==
    [inputPrice |-> Some(12500), outputPrice |-> Some(37500),
     cacheReadsPrice |-> Some(3125), tiers |-> Undefined]

incompleteInfo == [mockInfo EXCEPT !.outputPrice = Undefined]

ModelInfos == {mockInfo, incompleteInfo}

\* The inputs of calculateCostGenai: an optional price is absent, 0 or
\* positive; a tier list is absent, empty or holds one or two tiers, in
\* any order, each of which may omit prices.
PriceOptions == {<<>>} \cup {<<p>> : p \in 0..MaxPrice}

TokenCounts == 0..MaxTokens

PriceTier(contextWindow, inputPrice, outputPrice, cacheReadsPrice) ==
    [contextWindow |-> contextWindow, inputPrice |-> inputPrice,
     outputPrice |-> outputPrice, cacheReadsPrice |-> cacheReadsPrice]

TierPrices == { <<<<5>>, <<6>>, <<7>>>>, <<<<0>>, <<>>, <<4>>>>, <<<<>>, <<9>>, <<>>>> }

CostTiers == {PriceTier(cw, t[1], t[2], t[3]) : cw \in {1, 2}, t \in TierPrices}

CostTierLists ==
    {<<>>} \cup {<<<<>>>>} \cup {<<<<t>>>> : t \in CostTiers}
           \cup {<<<<t, u>>>> : t \in CostTiers, u \in CostTiers}

CostInfos ==
    [inputPrice : PriceOptions, outputPrice : PriceOptions,
     cacheReadsPrice : PriceOptions, tiers : CostTierLists]

CostArgs ==
    [info : CostInfos, inputTokens : TokenCounts, outputTokens : TokenCounts,
     cacheReadTokens : {<<>>} \cup {<<n>> : n \in TokenCounts}]

\* ------------------------------------------------------------------------
\* Native chunks (GenerateContentResponse) and stream events
\* ------------------------------------------------------------------------

Part(thought, text) == [thought |-> thought, text |-> text]

UsageMetadata(prompt, candidates, cached, thoughts) ==
    [promptTokenCount |-> prompt, candidatesTokenCount |-> candidates,
     cachedContentTokenCount |-> cached, thoughtsTokenCount |-> thoughts]

NativeChunk(parts, usageMetadata) ==
    [parts |-> parts, usageMetadata |-> usageMetadata]

\* The chunks the transport may deliver.
NativeChunks ==
    { NativeChunk(<<Part(FALSE, <<"a">>)>>, Undefined),
      NativeChunk(<<Part(FALSE, <<>>)>>, Undefined),
      NativeChunk(<<Part(TRUE, <<"t">>), Part(FALSE, <<"b">>)>>, Undefined),
      NativeChunk(<<>>, Some(UsageMetadata(Some(100), Some(50), Some(25), Some(15)))),
      NativeChunk(<<>>, Some(UsageMetadata(Some(10), Undefined, Undefined, Undefined))),
      NativeChunk(<<Part(FALSE, <<"c">>)>>,
                  Some(UsageMetadata(Some(0), Some(0), Undefined, Undefined))) }

\* The errors the transport may raise.
TransportErrors == { [name |-> "Error", message |-> <<"Stream error">>] }

\* chunk.text: the concatenated text of the parts that are not thoughts;
\* undefined when the chunk has no such part.
RECURSIVE ConcatText(_)
ConcatText(parts) ==
    IF parts = <<>> THEN <<>>
    ELSE IF parts[1].thought THEN ConcatText(Tail(parts))
         ELSE parts[1].text \o ConcatText(Tail(parts))

ChunkText(chunk) ==
    IF \E i \in 1..Len(chunk.parts) : ~chunk.parts[i].thought
    THEN Some(ConcatText(chunk.parts))
    ELSE Undefined

TextEvent(text) == [type |-> "text", text |-> text]

\* Variant of UsageEvent that reports an unknown cost as 0.
UsageEventCostCoerced(usageMetadata, info) ==
    LET inputTokens == OrElse(usageMetadata.promptTokenCount, 0)
        outputTokens == OrElse(usageMetadata.candidatesTokenCount, 0)
        cacheReadTokens == usageMetadata.cachedContentTokenCount
        reasoningTokens == usageMetadata.thoughtsTokenCount
    IN  [type |-> "usage",
         inputTokens |-> inputTokens,
         outputTokens |-> outputTokens,
         cacheReadTokens |-> cacheReadTokens,
         reasoningTokens |-> reasoningTokens,
         totalCost |-> <<OrElse(calculateCostGenai(info, inputTokens, outputTokens,
                                                   cacheReadTokens), 0)>>]

UsageEvent(usageMetadata, info) ==
    LET inputTokens == OrElse(usageMetadata.promptTokenCount, 0)
        outputTokens == OrElse(usageMetadata.candidatesTokenCount, 0)
        cacheReadTokens == usageMetadata.cachedContentTokenCount
        reasoningTokens == usageMetadata.thoughtsTokenCount
    IN  [type |-> "usage",
         inputTokens |-> inputTokens,
         outputTokens |-> outputTokens,
         cacheReadTokens |-> cacheReadTokens,
         reasoningTokens |-> reasoningTokens,
         totalCost |-> calculateCostGenai(info, inputTokens, outputTokens, cacheReadTokens)]

\* ------------------------------------------------------------------------
\* State
\* ------------------------------------------------------------------------

\* The createMessage calls in flight on the one provider instance.
Streams == {1, 2}

VARIABLES
    info,               \* the ModelInfo getModel() resolves for the provider
    gen,                \* gen[s]: where call s's generator body stands
    pending,            \* pending[s]: the caller's next() is unanswered
    closeRequested,     \* closeRequested[s]: return() queued behind next()
    transport,          \* transport[s]: state of call s's native stream
    transportError,     \* transportError[s]: what the transport raised
    native,             \* native[s]: the chunks the transport delivered
    lastUsageMetadata,  \* lastUsageMetadata[s]: the local of that name
    out,                \* out[s]: the events the caller received
    raised              \* raised[s]: the errors the caller received

\* A call of calculateCostGenai.
VARIABLES
    costPc,             \* "idle", "called" or "returned"
    costArgs,           \* the arguments of the call
    costResult          \* what the call returned

\* A call of VertexHandler.countTokens.
VARIABLES
    ctPc,               \* "idle", "native", "estimator", "returned" or "threw"
    ctContent,          \* the content the caller passed
    ctNative,           \* how the native countTokens call ended
    ctSuperCalls,       \* the contents super.countTokens was called with
    ctResult,           \* the count the caller received
    ctRaised            \* the error the caller received

\* A VertexHandler: its options and a call of getModel.
VARIABLES
    options,            \* this.options
    gmResult            \* what getModel() returned

\* The provider's client and the calls made on the provider.
VARIABLES
    client,             \* this.client
    calls,              \* the calls made so far and what each sent
    disposeLog,         \* what each dispose() call found and did
    cpPc,               \* completePrompt: "idle", "awaiting", "returned", "threw"
    cpCause,            \* what the backend call behind it raised
    cpResult,           \* the text completePrompt returned
    cpRaised            \* the error completePrompt raised

\* The static state of HighlightCache and the last getHighlighted call.
VARIABLES
    hlCache,            \* cache: key -> html
    hlAccessOrder,      \* accessOrder: key -> access number
    hlAccessCounter,    \* accessCounter
    hlLast,             \* the last call on the cache and its result
    hlStored            \* per (source, language, theme): the html stored
                        \* last and not evicted or cleared since

\* One MessageCache, its messages.json and the calls in progress on it.
VARIABLES
    mcMaxCacheSize,     \* maxCacheSize
    mcCache,            \* cache: the Map's entries in insertion order
    mcMessageIds,       \* messageIds
    mcFile,             \* messages.json: absent, or the array it holds
    mcCall,             \* per caller: the call in progress and its result
    mcUsed,             \* the cached indices, least recently used first
    mcKept              \* per index: the message added or persisted there

streamVars == <<info, gen, pending, closeRequested, transport, transportError,
                native, lastUsageMetadata, out, raised>>

costVars == <<costPc, costArgs, costResult>>

ctVars == <<ctPc, ctContent, ctNative, ctSuperCalls, ctResult, ctRaised>>

modelVars == <<options, gmResult>>

providerVars == <<client, calls, disposeLog, cpPc, cpCause, cpResult, cpRaised>>

hlVars == <<hlCache, hlAccessOrder, hlAccessCounter, hlLast, hlStored>>

mcVars == <<mcMaxCacheSize, mcCache, mcMessageIds, mcFile, mcCall, mcUsed,
            mcKept>>

vars == <<streamVars, costVars, ctVars, modelVars, providerVars, hlVars,
          mcVars>>

\* The options of the handler the jest suite builds before each test.
TestOptions ==
    [apiModelId |-> <<<<"gemini-2.0-flash-001">>>>,
     vertexApiKey |-> <<>>,
     vertexProjectId |-> <<<<"test-project">>>>,
     vertexRegion |-> <<<<"us-central1">>>>]

\* getModel() has not been called.
ModelIdle ==
    /\ options = TestOptions
    /\ gmResult = <<>>

\* No client is held and no call has been made on the provider.
ProviderIdle ==
    /\ client = <<>>
    /\ calls = <<>>
    /\ disposeLog = <<>>
    /\ cpPc = "idle"
    /\ cpCause = <<>>
    /\ cpResult = <<>>
    /\ cpRaised = <<>>

\* new Map()
EmptyMap == [k \in {} |-> <<>>]

\* The HighlightCache as the class is loaded: both maps empty.
HighlightEmpty ==
    /\ hlCache = EmptyMap
    /\ hlAccessOrder = EmptyMap
    /\ hlAccessCounter = 0
    /\ hlLast = <<>>
    /\ hlStored = EmptyMap

\* A call on the MessageCache: op is the method, pc where it stands, index
\* and message its arguments (for a page: the loop variable and the end
\* index), read the array saveMessageToStorage parsed, result what
\* getClineMessage resolved with or getClineMessages has collected.
MessageCall(op, pc, index, endIndex, message, read, result) ==
    [op |-> op, pc |-> pc, index |-> index, endIndex |-> endIndex,
     message |-> message, read |-> read, result |-> result]

NoMessageCall == MessageCall("none", "idle", 0, 0, <<>>, <<>>, <<>>)

\* No MessageCache has been used: empty cache, no ids, no messages.json.
MessagesIdle ==
    /\ mcMaxCacheSize = MaxCapacity
    /\ mcCache = <<>>
    /\ mcMessageIds = <<>>
    /\ mcFile = <<>>
    /\ mcCall = [c \in Callers |-> NoMessageCall]
    /\ mcUsed = <<>>
    /\ mcKept = <<>>

\* No call of calculateCostGenai has been made.
CostIdle ==
    /\ costPc = "idle"
    /\ costArgs = <<>>
    /\ costResult = <<>>

\* No call of countTokens has been made.
CountIdle ==
    /\ ctPc = "idle"
    /\ ctContent = <<>>
    /\ ctNative = [kind |-> "none", totalTokens |-> <<>>, error |-> <<>>]
    /\ ctSuperCalls = <<>>
    /\ ctResult = <<>>
    /\ ctRaised = <<>>

\* What a step of createMessage leaves alone.
OutsideStream ==
    UNCHANGED <<costVars, ctVars, modelVars, providerVars, hlVars,
                mcVars>>

\* No createMessage call has been pulled.
StreamIdle ==
    /\ gen = [s \in Streams |-> "start"]
    /\ pending = [s \in Streams |-> FALSE]
    /\ closeRequested = [s \in Streams |-> FALSE]
    /\ transport = [s \in Streams |-> "idle"]
    /\ transportError = [s \in Streams |-> Undefined]
    /\ native = [s \in Streams |-> <<>>]
    /\ lastUsageMetadata = [s \in Streams |-> Undefined]
    /\ out = [s \in Streams |-> <<>>]
    /\ raised = [s \in Streams |-> <<>>]

Init ==
    /\ CostIdle
    /\ CountIdle
    /\ ModelIdle
    /\ ProviderIdle
    /\ HighlightEmpty
    /\ MessagesIdle
    /\ info \in ModelInfos
    /\ StreamIdle

TotalDelivered == Len(native[1]) + Len(native[2])

\* ------------------------------------------------------------------------
\* The body of createMessage
\* ------------------------------------------------------------------------

\* Variant of RecordUsage that keeps the first fragment it was given.
RecordUsageFirstWins(lum, s, usageMetadata) ==
    IF IsDefined(lum[s]) THEN lum ELSE [lum EXCEPT ![s] = Some(usageMetadata)]

\* Variant of RecordUsage that merges field by field: a field the new
\* fragment omits survives from the earlier one.
RecordUsageMerge(lum, s, usageMetadata) ==
    IF ~IsDefined(lum[s]) THEN [lum EXCEPT ![s] = Some(usageMetadata)]
    ELSE [lum EXCEPT ![s] = Some(
            [f \in DOMAIN usageMetadata |->
                IF IsDefined(usageMetadata[f]) THEN usageMetadata[f] ELSE lum[s][1][f]])]

\* Variant of RecordUsage that keeps the snapshot in a field of the
\* provider instance, which all calls share.
RecordUsageShared(lum, s, usageMetadata) ==
    [t \in Streams |-> Some(usageMetadata)]

\* lastUsageMetadata = chunk.usageMetadata, on call s's own local.
RecordUsage(lum, s, usageMetadata) ==
    [lum EXCEPT ![s] = Some(usageMetadata)]

\* if (chunk.usageMetadata) { lastUsageMetadata = chunk.usageMetadata }
AfterChunkUsage(lum, s, chunk) ==
    IF IsDefined(chunk.usageMetadata)
    THEN RecordUsage(lum, s, chunk.usageMetadata[1])
    ELSE lum

\* Variant of EventsForChunk that yields a usage event as soon as the
\* fragment is received.
EventsForChunkEagerUsage(chunk, modelInfo) ==
    (IF TruthyText(ChunkText(chunk)) THEN <<TextEvent(ChunkText(chunk)[1])>> ELSE <<>>)
    \o (IF IsDefined(chunk.usageMetadata)
        THEN <<UsageEvent(chunk.usageMetadata[1], modelInfo)>> ELSE <<>>)

\* What the loop body yields for one chunk.
EventsForChunk(chunk, modelInfo) ==
    IF TruthyText(ChunkText(chunk)) THEN <<TextEvent(ChunkText(chunk)[1])>> ELSE <<>>

\* Variant of TerminalEvents without the guard on lastUsageMetadata.
TerminalEventsUnguarded(lum, modelInfo) ==
    IF IsDefined(lum) THEN <<UsageEvent(lum[1], modelInfo)>>
    ELSE <<UsageEvent(UsageMetadata(Undefined, Undefined, Undefined, Undefined), modelInfo)>>

\* What the code after the loop yields.
TerminalEvents(lum, modelInfo) ==
    IF IsDefined(lum) THEN <<UsageEvent(lum[1], modelInfo)>> ELSE <<>>

\* Variant of SuspendAt for a producer that does not wait for the next
\* pull after a yield.
SuspendAtEager(point, closing) ==
    IF point = "yieldText" THEN "loop" ELSE "done"

\* Where the generator stands after executing a yield: suspended there,
\* or finished when a return() was queued behind the pull it answers.
SuspendAt(point, closing) ==
    IF closing THEN "closed" ELSE point

\* The caller calls next().  The body runs to its next await: from the
\* start it builds the request and calls generateContentStream; from the
\* yield in the loop it finishes the loop body and awaits the next chunk;
\* from the final yield it returns.
Pull(s) ==
    /\ ~pending[s]
    /\ gen[s] \in {"start", "yieldText", "yieldUsage"}
    /\ CASE gen[s] = "start" ->
              /\ gen' = [gen EXCEPT ![s] = "request"]
              /\ transport' = [transport EXCEPT ![s] = "requested"]
              /\ pending' = [pending EXCEPT ![s] = TRUE]
              /\ UNCHANGED lastUsageMetadata
         [] gen[s] = "yieldText" ->
              /\ gen' = [gen EXCEPT ![s] = "loop"]
              /\ lastUsageMetadata' =
                    AfterChunkUsage(lastUsageMetadata, s, native[s][Len(native[s])])
              /\ pending' = [pending EXCEPT ![s] = TRUE]
              /\ UNCHANGED transport
         [] gen[s] = "yieldUsage" ->
              /\ gen' = [gen EXCEPT ![s] = "done"]
              /\ UNCHANGED <<transport, pending, lastUsageMetadata>>
    /\ UNCHANGED <<info, closeRequested, transportError, native, out, raised>>
    /\ OutsideStream

\* The caller calls return().  A suspended generator finishes at once (the
\* for-await it leaves closes the native stream); behind an unanswered
\* next() the request is queued.
Close(s) ==
    /\ gen[s] \in {"start", "request", "loop", "yieldText", "yieldUsage"}
    /\ IF pending[s]
       THEN /\ ~closeRequested[s]
            /\ closeRequested' = [closeRequested EXCEPT ![s] = TRUE]
            /\ UNCHANGED <<gen, transport>>
       ELSE /\ gen' = [gen EXCEPT ![s] = "closed"]
            /\ transport' = [transport EXCEPT ![s] =
                                IF gen[s] = "yieldText" THEN "returned" ELSE @]
            /\ UNCHANGED closeRequested
    /\ UNCHANGED <<info, pending, transportError, native, lastUsageMetadata, out, raised>>
    /\ OutsideStream

\* await this.client.models.generateContentStream(params) resolves.
RequestResolves(s) ==
    /\ gen[s] = "request"
    /\ gen' = [gen EXCEPT ![s] = "loop"]
    /\ transport' = [transport EXCEPT ![s] = "open"]
    /\ UNCHANGED <<info, pending, closeRequested, transportError, native,
                   lastUsageMetadata, out, raised>>
    /\ OutsideStream

\* await this.client.models.generateContentStream(params) rejects.
RequestRejects(s, e) ==
    /\ gen[s] = "request"
    /\ gen' = [gen EXCEPT ![s] = "failed"]
    /\ transport' = [transport EXCEPT ![s] = "rejected"]
    /\ transportError' = [transportError EXCEPT ![s] = Some(e)]
    /\ raised' = [raised EXCEPT ![s] = Append(@, e)]
    /\ pending' = [pending EXCEPT ![s] = FALSE]
    /\ closeRequested' = [closeRequested EXCEPT ![s] = FALSE]
    /\ UNCHANGED <<info, native, lastUsageMetadata, out>>
    /\ OutsideStream

\* for await (const chunk of result): the next chunk arrives.
ChunkArrives(s, chunk) ==
    /\ gen[s] = "loop"
    /\ TotalDelivered < MaxChunks
    /\ native' = [native EXCEPT ![s] = Append(@, chunk)]
    /\ LET events == EventsForChunk(chunk, info)
       IN  IF events # <<>>
           THEN /\ out' = [out EXCEPT ![s] = @ \o events]
                /\ gen' = [gen EXCEPT ![s] = SuspendAt("yieldText", closeRequested[s])]
                /\ pending' = [pending EXCEPT ![s] = FALSE]
                /\ transport' = [transport EXCEPT ![s] =
                                    IF closeRequested[s] THEN "returned" ELSE @]
                /\ closeRequested' = [closeRequested EXCEPT ![s] = FALSE]
                /\ UNCHANGED lastUsageMetadata
           ELSE /\ lastUsageMetadata' = AfterChunkUsage(lastUsageMetadata, s, chunk)
                /\ UNCHANGED <<out, gen, pending, transport, closeRequested>>
    /\ UNCHANGED <<info, transportError, raised>>
    /\ OutsideStream

\* The native stream is exhausted: the code after the loop runs.
StreamEnds(s) ==
    /\ gen[s] = "loop"
    /\ transport' = [transport EXCEPT ![s] = "ended"]
    /\ LET events == TerminalEvents(lastUsageMetadata[s], info)
       IN  /\ out' = [out EXCEPT ![s] = @ \o events]
           /\ gen' = [gen EXCEPT ![s] =
                         IF events # <<>>
                         THEN SuspendAt("yieldUsage", closeRequested[s])
                         ELSE "done"]
    /\ pending' = [pending EXCEPT ![s] = FALSE]
    /\ closeRequested' = [closeRequested EXCEPT ![s] = FALSE]
    /\ UNCHANGED <<info, transportError, native, lastUsageMetadata, raised>>
    /\ OutsideStream

\* Variant of StreamRaises with the loop in a try/finally that still
\* reports the recorded usage.
StreamRaisesAfterUsage(s, e) ==
    /\ gen[s] = "loop"
    /\ gen' = [gen EXCEPT ![s] = "failed"]
    /\ transport' = [transport EXCEPT ![s] = "raised"]
    /\ transportError' = [transportError EXCEPT ![s] = Some(e)]
    /\ out' = [out EXCEPT ![s] = @ \o TerminalEvents(lastUsageMetadata[s], info)]
    /\ raised' = [raised EXCEPT ![s] = Append(@, e)]
    /\ pending' = [pending EXCEPT ![s] = FALSE]
    /\ closeRequested' = [closeRequested EXCEPT ![s] = FALSE]
    /\ UNCHANGED <<info, native, lastUsageMetadata>>
    /\ OutsideStream

\* `Vertex completion error: ${error.message}`
VertexCompletionError(e) ==
    [name |-> "Error", message |-> <<"Vertex completion error: ">> \o e.message]

\* Variant of StreamRaises that wraps the error as completePrompt does.
StreamRaisesWrapped(s, e) ==
    /\ gen[s] = "loop"
    /\ gen' = [gen EXCEPT ![s] = "failed"]
    /\ transport' = [transport EXCEPT ![s] = "raised"]
    /\ transportError' = [transportError EXCEPT ![s] = Some(e)]
    /\ raised' = [raised EXCEPT ![s] = Append(@, VertexCompletionError(e))]
    /\ pending' = [pending EXCEPT ![s] = FALSE]
    /\ closeRequested' = [closeRequested EXCEPT ![s] = FALSE]
    /\ UNCHANGED <<info, native, lastUsageMetadata, out>>
    /\ OutsideStream

\* for await (const chunk of result): the native stream raises.  Nothing
\* in createMessage catches it.
StreamRaises(s, e) ==
    /\ gen[s] = "loop"
    /\ gen' = [gen EXCEPT ![s] = "failed"]
    /\ transport' = [transport EXCEPT ![s] = "raised"]
    /\ transportError' = [transportError EXCEPT ![s] = Some(e)]
    /\ raised' = [raised EXCEPT ![s] = Append(@, e)]
    /\ pending' = [pending EXCEPT ![s] = FALSE]
    /\ closeRequested' = [closeRequested EXCEPT ![s] = FALSE]
    /\ UNCHANGED <<info, native, lastUsageMetadata, out>>
    /\ OutsideStream

Next ==
    \/ \E s \in Streams : Pull(s)
    \/ \E s \in Streams : Close(s)
    \/ \E s \in Streams : RequestResolves(s)
    \/ \E s \in Streams, e \in TransportErrors : RequestRejects(s, e)
    \/ \E s \in Streams, chunk \in NativeChunks : ChunkArrives(s, chunk)
    \/ \E s \in Streams : StreamEnds(s)
    \/ \E s \in Streams, e \in TransportErrors : StreamRaises(s, e)

Spec == Init /\ [][Next]_vars

\* ------------------------------------------------------------------------
\* calculateCostGenai, called on its own
\* ------------------------------------------------------------------------

\* What a call of calculateCostGenai leaves alone.
OutsideCost ==
    UNCHANGED <<streamVars, ctVars, modelVars, providerVars, hlVars,
                mcVars>>

InitCost ==
    /\ info = mockInfo
    /\ StreamIdle
    /\ CountIdle
    /\ ModelIdle
    /\ ProviderIdle
    /\ HighlightEmpty
    /\ MessagesIdle
    /\ costPc = "called"
    /\ costArgs \in CostArgs
    /\ costResult = <<>>

CalculateCost ==
    /\ costPc = "called"
    /\ costPc' = "returned"
    /\ costResult' = calculateCostGenai(costArgs.info, costArgs.inputTokens,
                                        costArgs.outputTokens, costArgs.cacheReadTokens)
    /\ UNCHANGED costArgs
    /\ OutsideCost

NextCost == CalculateCost

SpecCost == InitCost /\ [][NextCost]_vars

\* ------------------------------------------------------------------------
\* Type invariant
\* ------------------------------------------------------------------------

TypeOK ==
    /\ info \in ModelInfos
    /\ gen \in [Streams -> {"start", "request", "loop", "yieldText", "yieldUsage",
                            "done", "failed", "closed"}]
    /\ pending \in [Streams -> BOOLEAN]
    /\ closeRequested \in [Streams -> BOOLEAN]
    /\ transport \in [Streams -> {"idle", "requested", "open", "ended", "raised",
                                  "rejected", "returned"}]
    /\ \A s \in Streams : \A i \in 1..Len(native[s]) : native[s][i] \in NativeChunks

\* ------------------------------------------------------------------------
\* What a stream's native chunks determine
\* ------------------------------------------------------------------------

IsText(ev) == ev.type = "text"

IsReasoning(ev) == ev.type = "reasoning"

IsUsage(ev) == ev.type = "usage"

UsageEventsOf(s) == SelectSeq(out[s], IsUsage)

\* The contents of the events of one kind, in order.
ContentsOf(events, Kind(_)) ==
    LET sel == SelectSeq(events, Kind)
    IN  [i \in 1..Len(sel) |-> sel[i].text]

\* The positions of the chunks that carried a usage fragment.
UsageIdx(chunks) == {i \in 1..Len(chunks) : chunks[i].usageMetadata # <<>>}

FirstUsageFragment(chunks) ==
    chunks[CHOOSE i \in UsageIdx(chunks) : \A j \in UsageIdx(chunks) : i <= j].usageMetadata[1]

LastUsageFragment(chunks) ==
    chunks[CHOOSE i \in UsageIdx(chunks) : \A j \in UsageIdx(chunks) : i >= j].usageMetadata[1]

\* The non-empty text contents of the chunks, in arrival order.
RECURSIVE NonEmptyTexts(_)
NonEmptyTexts(chunks) ==
    IF chunks = <<>> THEN <<>>
    ELSE LET t == ChunkText(chunks[1])
         IN  (IF t # <<>> /\ t[1] # <<>> THEN <<t[1]>> ELSE <<>>)
             \o NonEmptyTexts(Tail(chunks))

\* One event per non-empty fragment: reasoning for a fragment flagged as a
\* thought, text for any other.
RECURSIVE ClassifyParts(_)
ClassifyParts(parts) ==
    IF parts = <<>> THEN <<>>
    ELSE (IF parts[1].text = <<>> THEN <<>>
          ELSE <<[type |-> IF parts[1].thought THEN "reasoning" ELSE "text",
                  text |-> parts[1].text]>>)
         \o ClassifyParts(Tail(parts))

RECURSIVE ClassifyChunks(_)
ClassifyChunks(chunks) ==
    IF chunks = <<>> THEN <<>>
    ELSE ClassifyParts(chunks[1].parts) \o ClassifyChunks(Tail(chunks))

IsContent(ev) == ev.type \in {"text", "reasoning"}

\* The events a call owes its caller, from its own chunks alone.
OwnEvents(chunks, exhausted, modelInfo) ==
    [i \in 1..Len(NonEmptyTexts(chunks)) |->
        [type |-> "text", text |-> NonEmptyTexts(chunks)[i]]]
    \o (IF exhausted /\ UsageIdx(chunks) # {}
        THEN <<UsageEvent(LastUsageFragment(chunks), modelInfo)>>
        ELSE <<>>)

\* ------------------------------------------------------------------------
\* Properties
\* ------------------------------------------------------------------------

\* C1: a stream consumed to exhaustion in which some chunk carried a usage
\* fragment has emitted exactly one usage event, and its inputTokens,
\* outputTokens, cacheReadTokens and reasoningTokens are those of the last
\* usage fragment received (a missing prompt or candidates count reads 0).
UsageLastWriteWins ==
    \A s \in Streams :
        (transport[s] = "ended" /\ UsageIdx(native[s]) # {}) =>
            LET us == UsageEventsOf(s)
                last == LastUsageFragment(native[s])
            IN  /\ Len(us) = 1
                /\ us[1].inputTokens = OrElse(last.promptTokenCount, 0)
                /\ us[1].outputTokens = OrElse(last.candidatesTokenCount, 0)
                /\ us[1].cacheReadTokens = last.cachedContentTokenCount
                /\ us[1].reasoningTokens = last.thoughtsTokenCount

\* Witness of C1: an exhausted stream that carried two different usage
\* fragments and was pulled to its end.
UsageLastWriteWinsWitness ==
    \E s \in Streams :
        /\ gen[s] = "done"
        /\ Cardinality(UsageIdx(native[s])) >= 2
        /\ FirstUsageFragment(native[s]) # LastUsageFragment(native[s])

\* C2: a usage event is produced only after the native stream is exhausted,
\* and it is the last event of the emitted sequence: every text event
\* precedes it.
UsageEventIsLast ==
    \A s \in Streams : \A i \in 1..Len(out[s]) :
        IsUsage(out[s][i]) => (i = Len(out[s]) /\ transport[s] = "ended")

\* Witness of C2: the usage fragment arrived before a text chunk, and the
\* caller received the text first and the usage event after it.
UsageEventIsLastWitness ==
    \E s \in Streams :
        /\ Len(native[s]) >= 2
        /\ native[s][1].usageMetadata # <<>>
        /\ NonEmptyTexts(<<native[s][2]>>) # <<>>
        /\ Len(out[s]) = 2
        /\ IsText(out[s][1])
        /\ IsUsage(out[s][2])

\* C3: a stream consumed to exhaustion in which no chunk carried a usage
\* fragment has emitted no usage event, whatever text it carried.
NoUsageFragmentNoUsageEvent ==
    \A s \in Streams :
        (transport[s] = "ended" /\ UsageIdx(native[s]) = {}) =>
            UsageEventsOf(s) = <<>>

\* Witness of C3: a stream with text and no usage fragment, pulled to its
\* end.
NoUsageFragmentNoUsageEventWitness ==
    \E s \in Streams :
        /\ gen[s] = "done"
        /\ UsageIdx(native[s]) = {}
        /\ Len(out[s]) >= 1

\* C4: the snapshot is replaced as a whole: a field the last usage fragment
\* omits is absent from the usage event (cacheReadTokens, reasoningTokens)
\* or reads 0 (outputTokens); it does not survive from an earlier fragment.
SnapshotReplacedWhole ==
    \A s \in Streams : \A i \in 1..Len(out[s]) :
        IsUsage(out[s][i]) =>
            LET last == LastUsageFragment(native[s])
            IN  /\ last.cachedContentTokenCount = <<>> => out[s][i].cacheReadTokens = <<>>
                /\ last.thoughtsTokenCount = <<>> => out[s][i].reasoningTokens = <<>>
                /\ last.candidatesTokenCount = <<>> => out[s][i].outputTokens = 0

\* Witness of C4: an earlier fragment reported cache, reasoning and output
\* counts, the last one omits them, and the usage event was emitted.
SnapshotReplacedWholeWitness ==
    \E s \in Streams :
        /\ UsageEventsOf(s) # <<>>
        /\ Cardinality(UsageIdx(native[s])) >= 2
        /\ FirstUsageFragment(native[s]).cachedContentTokenCount # <<>>
        /\ FirstUsageFragment(native[s]).thoughtsTokenCount # <<>>
        /\ FirstUsageFragment(native[s]).candidatesTokenCount # <<>>
        /\ LastUsageFragment(native[s]).cachedContentTokenCount = <<>>
        /\ LastUsageFragment(native[s]).thoughtsTokenCount = <<>>
        /\ LastUsageFragment(native[s]).candidatesTokenCount = <<>>

\* C5: the text contents the caller received are the non-empty text
\* contents of the native chunks, in arrival order, none dropped,
\* duplicated or reordered.
TextInArrivalOrder ==
    \A s \in Streams :
        ContentsOf(out[s], IsText) = NonEmptyTexts(native[s])

\* Witness of C5: three chunks, two with different non-empty texts and one
\* with an empty text, and both texts received.
TextInArrivalOrderWitness ==
    \E s \in Streams :
        /\ Len(native[s]) = 3
        /\ \E i \in 1..3 : ChunkText(native[s][i]) = <<<<>>>>
        /\ Len(ContentsOf(out[s], IsText)) = 2
        /\ ContentsOf(out[s], IsText)[1] # ContentsOf(out[s], IsText)[2]

\* C6: classification is per fragment: the reasoning and text events the
\* caller received are, in order, one reasoning event per fragment flagged
\* as a thought and one text event per unflagged fragment.
ClassifiedPerFragment ==
    \A s \in Streams :
        SelectSeq(out[s], IsContent) = ClassifyChunks(native[s])

\* C7: when the transport raises after k chunks, the caller has received
\* the events of those k chunks and the error once, and no usage event,
\* also when a usage fragment was recorded before the failure.
FailureEndsTheSequence ==
    \A s \in Streams :
        gen[s] = "failed" =>
            /\ Len(raised[s]) = 1
            /\ out[s] = OwnEvents(native[s], FALSE, info)
            /\ UsageEventsOf(s) = <<>>

\* Witness of C7: the stream raised after a text chunk was delivered and a
\* usage fragment was recorded.
FailureEndsTheSequenceWitness ==
    \E s \in Streams :
        /\ gen[s] = "failed"
        /\ transport[s] = "raised"
        /\ lastUsageMetadata[s] # <<>>
        /\ Len(out[s]) >= 1

\* C8 as stated: a transport failure during createMessage reaches the
\* caller wrapped with the backend-qualified message.
TransportFailureWrapped ==
    \A s \in Streams :
        gen[s] = "failed" =>
            raised[s] = <<VertexCompletionError(transportError[s][1])>>

\* C8 as amended: a transport failure during createMessage, at the initial
\* request or mid-stream, reaches the caller as the transport's own error,
\* unchanged and without a backend-qualified prefix.
TransportFailureUnwrapped ==
    \A s \in Streams :
        gen[s] = "failed" =>
            /\ raised[s] = <<transportError[s][1]>>
            /\ raised[s][1] \in TransportErrors

\* Witness of C8: one call failed at the initial request and the other
\* mid-stream.
TransportFailureUnwrappedWitness ==
    \E s, t \in Streams :
        /\ gen[s] = "failed" /\ transport[s] = "rejected"
        /\ gen[t] = "failed" /\ transport[t] = "raised" /\ Len(native[t]) >= 1

\* C9: a native chunk is consumed, and an event produced, only while a
\* pull of the caller is unanswered; once the iterator is closed, no chunk
\* is consumed and no event produced.
ConsumesOnlyWhilePulled ==
    [][\A s \in Streams :
          /\ (native'[s] # native[s] \/ out'[s] # out[s]) => pending[s]
          /\ gen[s] = "closed" =>
                (gen'[s] = "closed" /\ native'[s] = native[s] /\ out'[s] = out[s])
          /\ gen'[s] \in {"request", "loop"} => pending'[s]]_vars

\* Witness of C9: the caller closed the iterator at a text event while a
\* usage fragment was recorded, and received no usage event.
ConsumesOnlyWhilePulledWitness ==
    \E s \in Streams :
        /\ gen[s] = "closed"
        /\ transport[s] = "returned"
        /\ lastUsageMetadata[s] # <<>>
        /\ UsageEventsOf(s) = <<>>

\* C10: two interleaved calls do not interfere: in every state, under
\* every interleaving, what each caller has received is the text events and
\* the terminal usage event that its own native chunks determine.
StreamsIndependent ==
    \A s \in Streams :
        out[s] = OwnEvents(native[s], transport[s] = "ended", info)

\* Witness of C10: both streams ran to exhaustion and reported different
\* usage.
StreamsIndependentWitness ==
    \E s, t \in Streams :
        /\ transport[s] = "ended" /\ transport[t] = "ended"
        /\ UsageEventsOf(s) # <<>>
        /\ UsageEventsOf(t) # <<>>
        /\ UsageEventsOf(s) # UsageEventsOf(t)

\* C11: the totalCost of the terminal usage event is calculateCostGenai
\* applied to the resolved model's info and to the inputTokens, outputTokens
\* and cacheReadTokens of the final snapshot; when a price of that info is
\* absent it is undefined, not 0.
TotalCostIsPricing ==
    \A s \in Streams : \A i \in 1..Len(out[s]) :
        IsUsage(out[s][i]) =>
            LET last == LastUsageFragment(native[s])
            IN  /\ out[s][i].totalCost =
                      calculateCostGenai(info,
                                         OrElse(last.promptTokenCount, 0),
                                         OrElse(last.candidatesTokenCount, 0),
                                         last.cachedContentTokenCount)
                /\ (\E f \in {"inputPrice", "outputPrice", "cacheReadsPrice"} :
                        info[f] = <<>>) => out[s][i].totalCost = <<>>

\* Witness of C11: a usage event with tokens to price was emitted under a
\* model info that lacks a price, and its totalCost is undefined.
TotalCostIsPricingWitness ==
    \E s \in Streams :
        /\ info = incompleteInfo
        /\ UsageEventsOf(s) # <<>>
        /\ UsageEventsOf(s)[1].inputTokens > 0
        /\ UsageEventsOf(s)[1].outputTokens > 0
        /\ UsageEventsOf(s)[1].totalCost = <<>>

\* ------------------------------------------------------------------------
\* VertexHandler.countTokens over BaseProvider.countTokens
\* ------------------------------------------------------------------------

\* Content blocks: text blocks, a text being a sequence of pieces.
Blocks == {<<>>, <<"a">>, <<"a", "b">>}

RECURSIVE ContentsOfLen(_)
ContentsOfLen(n) ==
    IF n = 0 THEN {<<>>}
    ELSE {Append(c, b) : c \in ContentsOfLen(n - 1), b \in Blocks}

\* The content arrays a caller passes.
Contents == UNION {ContentsOfLen(n) : n \in 0..MaxBlocks}

\* response.totalTokens of the native call: absent or a number.
NativeTotals == {<<>>} \cup {<<n>> : n \in 0..MaxTotal}

CountErrors == {"count failed", "worker failed"}

\* The errors the native countTokens call can reject with.
NativeErrors == {"API error", "quota exceeded"}

\* The local estimator applied to non-empty content: a deterministic
\* function of the content, here the number of text pieces in it.
RECURSIVE Estimate(_)
Estimate(content) ==
    IF content = <<>> THEN 0
    ELSE Len(Head(content)) + Estimate(Tail(content))

\* Variant of TotalIsUndefined that tests truthiness (!response.totalTokens).
TotalIsFalsy(totalTokens) == ~TruthyNumber(totalTokens)

\* response.totalTokens === undefined
TotalIsUndefined(totalTokens) == totalTokens = <<>>

OutsideCount ==
    UNCHANGED <<streamVars, costVars, modelVars, providerVars, hlVars,
                mcVars>>

InitCount ==
    /\ info = mockInfo
    /\ StreamIdle
    /\ CostIdle
    /\ CountIdle
    /\ ModelIdle
    /\ ProviderIdle
    /\ HighlightEmpty
    /\ MessagesIdle

\* The caller calls countTokens(content); the handler builds the request and
\* awaits this.client.models.countTokens(params).
CountTokens(content) ==
    /\ ctPc = "idle"
    /\ ctPc' = "native"
    /\ ctContent' = content
    /\ UNCHANGED <<ctNative, ctSuperCalls, ctResult, ctRaised>>
    /\ OutsideCount

\* Variant of SuperCountTokens that receives the content without its
\* first block.
SuperCountTokensTruncated ==
    /\ ctSuperCalls' = Append(ctSuperCalls, IF ctContent = <<>> THEN <<>> ELSE Tail(ctContent))
    /\ IF Len(ctContent) = 0
       THEN ctPc' = "returned" /\ ctResult' = <<0>>
       ELSE ctPc' = "estimator" /\ UNCHANGED ctResult

\* return super.countTokens(content): BaseProvider.countTokens returns 0 for
\* empty content and otherwise hands the content to the estimator.
SuperCountTokens ==
    /\ ctSuperCalls' = Append(ctSuperCalls, ctContent)
    /\ IF Len(ctContent) = 0
       THEN ctPc' = "returned" /\ ctResult' = <<0>>
       ELSE ctPc' = "estimator" /\ UNCHANGED ctResult

\* The native call resolves with a response: its total is returned when
\* defined, and super.countTokens takes over when it is undefined.
NativeCountResolves(totalTokens) ==
    /\ ctPc = "native"
    /\ ctNative' = [kind |-> "resolved", totalTokens |-> totalTokens, error |-> <<>>]
    /\ IF TotalIsUndefined(totalTokens)
       THEN SuperCountTokens
       ELSE /\ ctPc' = "returned"
            /\ ctResult' = totalTokens
            /\ UNCHANGED ctSuperCalls
    /\ UNCHANGED <<ctContent, ctRaised>>
    /\ OutsideCount

\* Variant of NativeCountRejects whose catch block rethrows the error.
NativeCountRejectsRethrown(e) ==
    /\ ctPc = "native"
    /\ ctNative' = [kind |-> "rejected", totalTokens |-> <<>>, error |-> <<e>>]
    /\ ctPc' = "threw"
    /\ ctRaised' = <<e>>
    /\ UNCHANGED <<ctContent, ctSuperCalls, ctResult>>
    /\ OutsideCount

\* The native call rejects: the catch block hands over to super.countTokens.
NativeCountRejects(e) ==
    /\ ctPc = "native"
    /\ ctNative' = [kind |-> "rejected", totalTokens |-> <<>>, error |-> <<e>>]
    /\ SuperCountTokens
    /\ UNCHANGED <<ctContent, ctRaised>>
    /\ OutsideCount

\* The estimator resolves with its count for the content.
EstimatorResolves ==
    /\ ctPc = "estimator"
    /\ ctPc' = "returned"
    /\ ctResult' = <<Estimate(ctContent)>>
    /\ UNCHANGED <<ctContent, ctNative, ctSuperCalls, ctRaised>>
    /\ OutsideCount

\* Variant of EstimatorRejects in which the try block awaits the promise:
\* a rejection after an undefined total enters the catch block, which calls
\* super.countTokens again.
EstimatorRejectsCaught(e) ==
    /\ ctPc = "estimator"
    /\ IF ctNative.kind = "resolved" /\ Len(ctSuperCalls) = 1
       THEN /\ ctSuperCalls' = Append(ctSuperCalls, ctContent)
            /\ UNCHANGED <<ctPc, ctRaised>>
       ELSE /\ ctPc' = "threw"
            /\ ctRaised' = <<e>>
            /\ UNCHANGED ctSuperCalls
    /\ UNCHANGED <<ctContent, ctNative, ctResult>>
    /\ OutsideCount

\* The estimator rejects: the promise was returned without await, so no
\* catch block of countTokens sees the rejection and the caller receives it.
EstimatorRejects(e) ==
    /\ ctPc = "estimator"
    /\ ctPc' = "threw"
    /\ ctRaised' = <<e>>
    /\ UNCHANGED <<ctContent, ctNative, ctSuperCalls, ctResult>>
    /\ OutsideCount

NextCount ==
    \/ \E content \in Contents : CountTokens(content)
    \/ \E totalTokens \in NativeTotals : NativeCountResolves(totalTokens)
    \/ \E e \in NativeErrors : NativeCountRejects(e)
    \/ EstimatorResolves
    \/ \E e \in CountErrors : EstimatorRejects(e)

SpecCount == InitCount /\ [][NextCount]_vars

\* ------------------------------------------------------------------------
\* VertexHandler.getModel
\* ------------------------------------------------------------------------

\* Model identifiers are sequences of pieces, ":thinking" being one piece.
Thinking == ":thinking"

vertexDefaultModelId == <<"claude-sonnet-4@20250514">>

\* The keys of the vertexModels table: plain models, and a hybrid reasoning
\* model listed both with and without the ":thinking" suffix.
vertexModelIds ==
    {vertexDefaultModelId,
     <<"gemini-2.0-flash-001">>,
     <<"gemini-2.0-flash-thinking-exp-01-21">>,
     <<"gemini-1.5-pro-002">>,
     <<"claude-3-7-sonnet@20250219">>,
     <<"claude-3-7-sonnet@20250219", Thinking>>}

\* Property names every object literal inherits from Object.prototype.
ObjectPrototypeKeys == {<<"toString">>, <<"constructor">>}

\* modelId in vertexModels: the in operator walks the prototype chain.
HasProperty(key) == key \in vertexModelIds \cup ObjectPrototypeKeys

\* vertexModels[id]: the entry of a key, named after it, or the inherited
\* member.
vertexModels(id) ==
    IF id \in vertexModelIds THEN [entry |-> id]
    ELSE [entry |-> <<"Object.prototype">> \o id]

\* A JavaScript string is truthy unless it is absent or empty.
TruthyString(x) == x # <<>> /\ x[1] # <<>>

\* id.endsWith(":thinking")
EndsWithThinking(id) == Len(id) > 0 /\ id[Len(id)] = Thinking

\* id.replace(":thinking", ""): the first occurrence is removed.
RECURSIVE ReplaceThinking(_)
ReplaceThinking(id) ==
    IF id = <<>> THEN <<>>
    ELSE IF Head(id) = Thinking THEN Tail(id)
    ELSE <<Head(id)>> \o ReplaceThinking(Tail(id))

\* The part of getModelParams the properties look at: reasoning is enabled
\* for an entry listed with the ":thinking" suffix.
ReasoningEnabled(id) == EndsWithThinking(id)

\* Variant of getModel that strips the suffix before the table lookup.
getModelStripFirst(opts) ==
    LET modelId == opts.apiModelId
        bare == IF TruthyString(modelId) /\ EndsWithThinking(modelId[1])
                THEN ReplaceThinking(modelId[1])
                ELSE <<>>
        id == IF TruthyString(modelId) /\ EndsWithThinking(modelId[1]) /\ HasProperty(bare)
              THEN bare
              ELSE IF TruthyString(modelId) /\ HasProperty(modelId[1])
              THEN modelId[1]
              ELSE vertexDefaultModelId
    IN  [id |-> id,
         info |-> vertexModels(id),
         reasoning |-> TruthyString(modelId) /\ EndsWithThinking(modelId[1])
                       /\ HasProperty(bare)]

\* Variant of getModel that keeps the stripped identifier on a table miss.
getModelKeepOnMiss(opts) ==
    LET modelId == opts.apiModelId
        id == IF TruthyString(modelId) THEN modelId[1] ELSE vertexDefaultModelId
    IN  [id |-> IF EndsWithThinking(id) THEN ReplaceThinking(id) ELSE id,
         info |-> vertexModels(id),
         reasoning |-> ReasoningEnabled(id)]

\* getModel(): the configured identifier when it is truthy and in the table,
\* the default otherwise; the suffix is removed from the id returned.
getModel(opts) ==
    LET modelId == opts.apiModelId
        id == IF TruthyString(modelId) /\ HasProperty(modelId[1])
              THEN modelId[1]
              ELSE vertexDefaultModelId
    IN  [id |-> IF EndsWithThinking(id) THEN ReplaceThinking(id) ELSE id,
         info |-> vertexModels(id),
         reasoning |-> ReasoningEnabled(id)]

\* The identifiers a configuration can carry: absent, empty, keys of the
\* table, identifiers unknown to it, with and without the suffix.
ConfiguredModelIds ==
    {<<>>, <<<<>>>>}
    \cup {<<id>> : id \in vertexModelIds}
    \cup {<<<<"invalid-model-id">>>>,
          <<<<"some-thinking-model", Thinking>>>>,
          <<<<"gemini-2.0-flash-thinking-exp-01-21", Thinking>>>>,
          <<<<"toString">>>>,
          <<<<"constructor">>>>}

\* An optional string option: absent, empty, or one of the values.
OptionalStrings(values) == {<<>>, <<<<>>>>} \cup {<<<<v>>>> : v \in values}

AllOptions ==
    [apiModelId : ConfiguredModelIds,
     vertexApiKey : OptionalStrings({"test-api-key"}),
     vertexProjectId : OptionalStrings({"test-project"}),
     vertexRegion : {<<>>, <<<<"us-central1">>>>}]

OutsideModel ==
    UNCHANGED <<streamVars, costVars, ctVars, providerVars, hlVars,
                mcVars>>

InitModel ==
    /\ info = mockInfo
    /\ StreamIdle
    /\ CostIdle
    /\ CountIdle
    /\ ProviderIdle
    /\ HighlightEmpty
    /\ MessagesIdle
    /\ options \in AllOptions
    /\ gmResult = <<>>

\* A caller calls getModel().
GetModel ==
    /\ gmResult = <<>>
    /\ gmResult' = <<getModel(options)>>
    /\ UNCHANGED options
    /\ OutsideModel

NextModel == GetModel

SpecModel == InitModel /\ [][NextModel]_vars

\* ------------------------------------------------------------------------
\* The provider: requests, completePrompt and dispose
\* ------------------------------------------------------------------------

\* The disposal methods dispose() tries, in the order it tries them.
ReleaseMethods == <<"close", "destroy", "dispose">>

\* A client is known by the disposal methods it has.
Client(methods) == [methods |-> methods]

Clients ==
    {Client({}), Client({"close"}), Client({"destroy", "dispose"}),
     Client({"close", "destroy", "dispose"}), Client({"dispose"})}

\* The first of close, destroy, dispose the client has; none if it has none.
ReleaseMethodOf(c) ==
    LET has == {i \in 1..Len(ReleaseMethods) : ReleaseMethods[i] \in c.methods}
    IN  IF has = {} THEN <<>>
        ELSE <<ReleaseMethods[CHOOSE i \in has : \A j \in has : i <= j]>>

\* A thrown value: an Error instance or not, and its message.
Thrown(isError, message) == [isError |-> isError, message |-> message]

\* What the backend call behind completePrompt can reject with: Errors,
\* one with an empty message, and a value that is not an Error instance.
BackendFailures ==
    {Thrown(TRUE, <<"Vertex API error">>), Thrown(TRUE, <<>>),
     Thrown(FALSE, <<"Vertex API error">>)}

\* this.client.models evaluated with this.client undefined.
ClientTypeError ==
    Thrown(TRUE, <<"Cannot read properties of undefined (reading 'models')">>)

\* Variant of CompletionError that wraps every thrown value.
CompletionErrorAlways(error) ==
    Thrown(TRUE, <<"Vertex completion error: ">> \o error.message)

\* The catch block of completePrompt: an Error is replaced by a new Error
\* with the prefixed message, any other value is rethrown as it is.
CompletionError(error) ==
    IF error.isError
    THEN Thrown(TRUE, <<"Vertex completion error: ">> \o error.message)
    ELSE error

\* String(x) inside a template literal.
TemplateString(x) == IF x = <<>> THEN <<"undefined">> ELSE x[1]

\* Variant of RequestModel that needs the API key only.
RequestModelKeyOnly(opts) ==
    LET model == getModel(opts).id
    IN  IF TruthyString(opts.vertexApiKey)
        THEN <<"projects/">> \o TemplateString(opts.vertexProjectId)
             \o <<"/locations/">> \o TemplateString(opts.vertexRegion)
             \o <<"/publishers/google/models/">> \o model
        ELSE model

\* params.model: the resolved id, rewritten to the project path when both
\* vertexApiKey and vertexProjectId are truthy.
RequestModel(opts) ==
    LET model == getModel(opts).id
    IN  IF TruthyString(opts.vertexApiKey) /\ TruthyString(opts.vertexProjectId)
        THEN <<"projects/">> \o TemplateString(opts.vertexProjectId)
             \o <<"/locations/">> \o TemplateString(opts.vertexRegion)
             \o <<"/publishers/google/models/">> \o model
        ELSE model

\* One call on the provider: the method, the model sent to the backend (none
\* when no request was issued), what the call raised at once, and whether
\* it went on to super.countTokens instead.
Call(op, model, error, fallback) ==
    [op |-> op, model |-> model, raised |-> error, fallback |-> fallback]

ProviderOptions ==
    [apiModelId : {<<>>, <<<<"gemini-2.0-flash-001">>>>,
                   <<<<"claude-3-7-sonnet@20250219", Thinking>>>>},
     vertexApiKey : OptionalStrings({"test-api-key"}),
     vertexProjectId : OptionalStrings({"test-project"}),
     vertexRegion : {<<>>, <<<<"us-central1">>>>}]

\* result.text of a completion: absent, empty or a text.
CompletionTexts == {<<>>, <<<<>>>>, <<<<"response">>>>}

OutsideProvider ==
    UNCHANGED <<streamVars, costVars, ctVars, gmResult, hlVars,
                mcVars>>

InitProvider ==
    /\ info = mockInfo
    /\ StreamIdle
    /\ CostIdle
    /\ CountIdle
    /\ HighlightEmpty
    /\ MessagesIdle
    /\ options \in ProviderOptions
    /\ gmResult = <<>>
    /\ client \in {<<>>} \cup {<<c>> : c \in Clients}
    /\ calls = <<>>
    /\ disposeLog = <<>>
    /\ cpPc = "idle"
    /\ cpCause = <<>>
    /\ cpResult = <<>>
    /\ cpRaised = <<>>

\* Variant of CreateMessageRequest that issues the request whether or not
\* a client is held.
CreateMessageRequestUnchecked ==
    /\ Len(calls) < MaxCalls
    /\ calls' = Append(calls, Call("createMessage", <<RequestModel(options)>>, <<>>, FALSE))
    /\ UNCHANGED <<options, client, disposeLog, cpPc, cpCause, cpResult, cpRaised>>
    /\ OutsideProvider

\* createMessage up to its first await: the request is built and issued;
\* with no client, evaluating this.client.models raises to the caller.
CreateMessageRequest ==
    /\ Len(calls) < MaxCalls
    /\ calls' = Append(calls,
                       IF client = <<>>
                       THEN Call("createMessage", <<>>, <<ClientTypeError>>, FALSE)
                       ELSE Call("createMessage", <<RequestModel(options)>>, <<>>, FALSE))
    /\ UNCHANGED <<options, client, disposeLog, cpPc, cpCause, cpResult, cpRaised>>
    /\ OutsideProvider

\* countTokens up to its first await: with no client the TypeError is raised
\* inside the try block and the catch block takes the fallback.
CountTokensRequest ==
    /\ Len(calls) < MaxCalls
    /\ calls' = Append(calls,
                       IF client = <<>>
                       THEN Call("countTokens", <<>>, <<>>, TRUE)
                       ELSE Call("countTokens", <<RequestModel(options)>>, <<>>, FALSE))
    /\ UNCHANGED <<options, client, disposeLog, cpPc, cpCause, cpResult, cpRaised>>
    /\ OutsideProvider

\* completePrompt up to its first await; with no client the TypeError is
\* raised inside the try block and leaves through the catch block.
CompletePrompt ==
    /\ Len(calls) < MaxCalls
    /\ cpPc # "awaiting"
    /\ cpResult' = <<>>
    /\ IF client = <<>>
       THEN /\ calls' = Append(calls, Call("completePrompt", <<>>, <<>>, FALSE))
            /\ cpPc' = "threw"
            /\ cpCause' = <<ClientTypeError>>
            /\ cpRaised' = <<CompletionError(ClientTypeError)>>
       ELSE /\ calls' = Append(calls, Call("completePrompt", <<RequestModel(options)>>, <<>>, FALSE))
            /\ cpPc' = "awaiting"
            /\ cpCause' = <<>>
            /\ cpRaised' = <<>>
    /\ UNCHANGED <<options, client, disposeLog>>
    /\ OutsideProvider

\* generateContent resolves: return result.text ?? "".
CompletionResolves(text) ==
    /\ cpPc = "awaiting"
    /\ cpPc' = "returned"
    /\ cpResult' = <<OrElse(text, <<>>)>>
    /\ UNCHANGED <<options, client, calls, disposeLog, cpCause, cpRaised>>
    /\ OutsideProvider

\* generateContent rejects: the catch block of completePrompt.
CompletionRejects(error) ==
    /\ cpPc = "awaiting"
    /\ cpPc' = "threw"
    /\ cpCause' = <<error>>
    /\ cpRaised' = <<CompletionError(error)>>
    /\ UNCHANGED <<options, client, calls, disposeLog, cpResult>>
    /\ OutsideProvider

\* What one dispose() call found, called and left behind.
Disposal(before, method, threw, after) ==
    [before |-> before, method |-> method, raised |-> threw, after |-> after]

\* Variant of Dispose that does not test for a client.
DisposeUnguarded(throws) ==
    /\ Len(disposeLog) < MaxDisposals
    /\ ~throws
    /\ client' = <<>>
    /\ disposeLog' = Append(disposeLog, Disposal(client, <<"close">>, FALSE, <<>>))
    /\ UNCHANGED <<options, calls, cpPc, cpCause, cpResult, cpRaised>>
    /\ OutsideProvider

\* Variant of Dispose that keeps the reference to the client.
DisposeKeepsClient(throws) ==
    /\ Len(disposeLog) < MaxDisposals
    /\ ~throws
    /\ UNCHANGED client
    /\ disposeLog' = Append(disposeLog,
                            Disposal(client,
                                     IF client = <<>> THEN <<>> ELSE ReleaseMethodOf(client[1]),
                                     FALSE, client))
    /\ UNCHANGED <<options, calls, cpPc, cpCause, cpResult, cpRaised>>
    /\ OutsideProvider

\* dispose(): with a client held, the first disposal method it has is
\* called and the reference is cleared; a disposal method that throws ends
\* dispose() before the reference is cleared.
Dispose(throws) ==
    /\ Len(disposeLog) < MaxDisposals
    /\ IF client = <<>>
       THEN /\ ~throws
            /\ UNCHANGED client
            /\ disposeLog' = Append(disposeLog, Disposal(client, <<>>, FALSE, client))
       ELSE LET method == ReleaseMethodOf(client[1])
            IN  /\ throws => method # <<>>
                /\ client' = IF throws THEN client ELSE <<>>
                /\ disposeLog' = Append(disposeLog,
                                        Disposal(client, method, throws, client'))
    /\ UNCHANGED <<options, calls, cpPc, cpCause, cpResult, cpRaised>>
    /\ OutsideProvider

NextProvider ==
    \/ CreateMessageRequest
    \/ CountTokensRequest
    \/ CompletePrompt
    \/ \E text \in CompletionTexts : CompletionResolves(text)
    \/ \E error \in BackendFailures : CompletionRejects(error)
    \/ \E throws \in BOOLEAN : Dispose(throws)

SpecProvider == InitProvider /\ [][NextProvider]_vars

\* ------------------------------------------------------------------------
\* HighlightCache
\* ------------------------------------------------------------------------

\* One round of hashCode: (hash << 5) - hash + char as a signed 32-bit
\* integer, which is hash * 31 + char modulo 2^32; computed on the two
\* 16-bit halves of hash.
HashStep(hash, char) ==
    LET lo == hash % 65536
        hi == (hash \div 65536) % 65536
        loSum == lo * 31 + char
        hiSum == ((hi * 31) + (loSum \div 65536)) % 65536
    IN  ((IF hiSum >= 32768 THEN hiSum - 65536 ELSE hiSum) * 65536)
        + (loSum % 65536)

\* hashCode(str): the rounds over the char codes, written out as a string
\* (in the model in base 10, one string per number as in base 36).
RECURSIVE HashOf(_, _)
HashOf(hash, codes) ==
    IF codes = <<>> THEN hash
    ELSE HashOf(HashStep(hash, Head(codes)), Tail(codes))

hashCode(source) == ToString(HashOf(0, source))

\* `${language}:${theme}:${this.hashCode(source)}`
CacheKey(source, language, theme) ==
    language \o <<":">> \o theme \o <<":">> \o <<hashCode(source)>>

\* map.set(key, value)
MapSet(map, key, value) ==
    [k \in DOMAIN map \cup {key} |-> IF k = key THEN value ELSE map[k]]

\* map.delete(key) for each of the keys
MapDelete(map, keys) == [k \in DOMAIN map \ keys |-> map[k]]

\* Math.max(1, Math.floor(this.maxSize * 0.1))
EntriesToRemove == IF maxSize \div 10 > 1 THEN maxSize \div 10 ELSE 1

\* The first n keys of accessOrder sorted by access number, descending.
MostRecentlyUsed(order, n) ==
    {k \in DOMAIN order :
        Cardinality({j \in DOMAIN order : order[j] > order[k]}) < n}

\* The first n keys of accessOrder sorted by access number.
LeastRecentlyUsed(order, n) ==
    {k \in DOMAIN order :
        Cardinality({j \in DOMAIN order : order[j] < order[k]}) < n}

\* The (source, language, theme) triples recorded whose entry is under one
\* of the keys.
StoredUnder(stored, keys) ==
    {a \in DOMAIN stored : CacheKey(a.source, a.language, a.theme) \in keys}

\* Variant of CacheIsFull that lets the cache grow one entry further.
CacheIsOverfull(cache) == Cardinality(DOMAIN cache) > maxSize

\* this.cache.size >= this.maxSize
CacheIsFull(cache) == Cardinality(DOMAIN cache) >= maxSize

\* Sources as char codes: "Aa" and "BB" have the same hash.
HighlightSources == {<<65, 97>>, <<66, 66>>, <<67>>}

\* The (source, language, theme) triples callers pass.
HighlightArgs ==
    {[source |-> src, language |-> <<"ts">>, theme |-> <<"dark">>] :
        src \in HighlightSources}
    \cup {[source |-> <<67>>, language |-> <<"ts">>, theme |-> <<"light">>],
          [source |-> <<67>>, language |-> <<"py">>, theme |-> <<"dark">>]}

\* Html strings, the empty string among them.
Htmls == {<<>>, <<"<pre>1</pre>">>, <<"<pre>2</pre>">>}

\* The last call on the cache: the method, its (source, language, theme),
\* what it returned (null is the empty option) and the keys it evicted.
HighlightCall(op, args, result, evicted) ==
    [op |-> op, args |-> args, result |-> result, evicted |-> evicted]

OutsideHighlight ==
    UNCHANGED <<streamVars, costVars, ctVars, modelVars, providerVars,
                mcVars>>

InitHighlight ==
    /\ info = mockInfo
    /\ StreamIdle
    /\ CostIdle
    /\ CountIdle
    /\ ModelIdle
    /\ ProviderIdle
    /\ HighlightEmpty
    /\ MessagesIdle

\* getHighlighted(source, language, theme)
GetHighlighted(args) ==
    LET key == CacheKey(args.source, args.language, args.theme)
        cached == IF key \in DOMAIN hlCache THEN <<hlCache[key]>> ELSE <<>>
    IN  IF TruthyString(cached)
        THEN /\ hlAccessCounter < MaxAccess
             /\ hlAccessCounter' = hlAccessCounter + 1
             /\ hlAccessOrder' = MapSet(hlAccessOrder, key, hlAccessCounter + 1)
             /\ hlLast' = <<HighlightCall("get", args, cached, {})>>
             /\ UNCHANGED <<hlCache, hlStored>>
             /\ OutsideHighlight
        ELSE /\ hlLast' = <<HighlightCall("get", args, <<>>, {})>>
             /\ UNCHANGED <<hlCache, hlAccessOrder, hlAccessCounter, hlStored>>
             /\ OutsideHighlight

\* setHighlighted(source, language, theme, html)
SetHighlighted(args, html) ==
    LET key == CacheKey(args.source, args.language, args.theme)
        evicted == IF CacheIsFull(hlCache)
                   THEN LeastRecentlyUsed(hlAccessOrder, EntriesToRemove)
                   ELSE {}
    IN  /\ hlAccessCounter < MaxAccess
        /\ hlCache' = MapSet(MapDelete(hlCache, evicted), key, html)
        /\ hlAccessCounter' = hlAccessCounter + 1
        /\ hlAccessOrder' = MapSet(MapDelete(hlAccessOrder, evicted), key,
                                   hlAccessCounter + 1)
        /\ hlLast' = <<HighlightCall("set", args, <<>>, evicted)>>
        /\ hlStored' = MapSet(MapDelete(hlStored, StoredUnder(hlStored, evicted)),
                              args, html)
        /\ OutsideHighlight

\* clear()
ClearHighlighted ==
    /\ hlCache' = EmptyMap
    /\ hlAccessOrder' = EmptyMap
    /\ hlAccessCounter' = 0
    /\ hlLast' = <<HighlightCall("clear", <<>>, <<>>, {})>>
    /\ hlStored' = EmptyMap
    /\ OutsideHighlight

NextHighlight ==
    \/ \E args \in HighlightArgs : GetHighlighted(args)
    \/ \E args \in HighlightArgs, html \in Htmls : SetHighlighted(args, html)
    \/ ClearHighlighted

SpecHighlight == InitHighlight /\ [][NextHighlight]_vars

\* ------------------------------------------------------------------------
\* MessageCache (src/unnamed/part_004:110-278)
\* ------------------------------------------------------------------------

\* The messages of a task, in the order in which they are added to it.
TaskMessages == <<"a", "b", "c", "d", "e", "f">>

\* An entry of the Map: key and value.
CacheEntry(index, message) == [index |-> index, message |-> message]

\* The keys of the Map.
CacheKeys(cache) == {cache[k].index : k \in 1..Len(cache)}

\* cache.has(index)
CacheHas(cache, index) == index \in CacheKeys(cache)

\* cache.get(index), for a key the Map has
CacheGet(cache, index) ==
    cache[CHOOSE k \in 1..Len(cache) : cache[k].index = index].message

\* cache.delete(index)
CacheDelete(cache, index) ==
    LET Other(e) == e.index # index
    IN  SelectSeq(cache, Other)

\* cache.set(index, message): a key the Map has keeps its place, a new key
\* goes to the end.
CacheSet(cache, index, message) ==
    IF CacheHas(cache, index)
    THEN [k \in 1..Len(cache) |->
            IF cache[k].index = index THEN CacheEntry(index, message)
            ELSE cache[k]]
    ELSE Append(cache, CacheEntry(index, message))

\* const firstKey = this.cache.keys().next().value; this.cache.delete(firstKey)
\* (on an empty Map firstKey is undefined and nothing is deleted)
DeleteFirstKey(cache) == IF cache = <<>> THEN cache ELSE Tail(cache)

\* if (this.cache.size >= this.maxCacheSize) { delete the first key }
\* this.cache.set(index, message)
InsertWithEviction(cache, max, index, message) ==
    CacheSet(IF Len(cache) >= max THEN DeleteFirstKey(cache) ELSE cache,
             index, message)

\* The cache hit of getClineMessage: get, delete, set.
MoveToEnd(cache, index) ==
    CacheSet(CacheDelete(cache, index), index, CacheGet(cache, index))

\* JSON.parse(await fs.readFile(messagesPath)) in saveMessageToStorage: the
\* array of the file, or [] when the read throws.
ReadOrEmpty(file) == IF file = <<>> THEN <<>> ELSE file[1]

\* loadMessageByIndex(index): messages[index] of the file, undefined when
\* the read throws or the array has no element there, null for a hole that
\* JSON.stringify wrote.
loadMessageByIndex(file, index) ==
    IF file = <<>> THEN <<>>
    ELSE IF index + 1 \in 1..Len(file[1]) THEN file[1][index + 1]
    ELSE <<>>

\* messages[index] = message: the array grows to index + 1, the elements in
\* between are holes.
ArraySet(messages, index, message) ==
    [k \in 1..(IF Len(messages) > index THEN Len(messages) ELSE index + 1) |->
        IF k = index + 1 THEN <<message>>
        ELSE IF k <= Len(messages) THEN messages[k]
        ELSE <<>>]

\* messages.map((_, index) => index)
IndicesOf(messages) == [k \in 1..Len(messages) |-> k - 1]

\* The order of last use after index was used, kept to the cached keys.
UsedAfter(used, index, cache) ==
    LET Cached(i) == i \in CacheKeys(cache)
        Other(i) == i # index
    IN  SelectSeq(Append(SelectSeq(used, Other), index), Cached)

\* The contents of messages.json when the cache is constructed.
InitialFiles == {<<>>, << << <<"a">>, <<"b">> >> >>}

OutsideMessages ==
    UNCHANGED <<streamVars, costVars, ctVars, modelVars, providerVars,
                hlVars>>

\* new MessageCache(taskId, globalStoragePath, maxCacheSize)
InitMessages ==
    /\ info = mockInfo
    /\ StreamIdle
    /\ CostIdle
    /\ CountIdle
    /\ ModelIdle
    /\ ProviderIdle
    /\ HighlightEmpty
    /\ mcMaxCacheSize \in 0..MaxCapacity
    /\ mcCache = <<>>
    /\ mcMessageIds = <<>>
    /\ mcFile \in InitialFiles
    /\ mcCall = [c \in Callers |-> NoMessageCall]
    /\ mcUsed = <<>>
    /\ mcKept = <<>>

\* The caller has no call in progress: it made none yet or its last call
\* resolved.
Settled(c) == mcCall[c].pc \in {"idle", "done"}

\* initialize(), called before any other call: the ids are the indices of the
\* array in messages.json, or none when the read throws.
Initialize ==
    /\ \A c \in Callers : mcCall[c].pc = "idle"
    /\ mcMessageIds = <<>>
    /\ mcMessageIds' = IndicesOf(ReadOrEmpty(mcFile))
    /\ mcKept' = ReadOrEmpty(mcFile)
    /\ UNCHANGED <<mcMaxCacheSize, mcCache, mcFile, mcCall, mcUsed>>
    /\ OutsideMessages

\* The index passes the range check of getClineMessage.
InRange(index) == index >= 0 /\ index < Len(mcMessageIds)

\* The part of getClineMessage(index) before its await, as the cache sees
\* it: outside the range and on a miss nothing changes, on a hit the entry
\* moves to the end of the Map.
Lookup(index) ==
    IF ~InRange(index)
    THEN /\ UNCHANGED <<mcCache, mcUsed>>
    ELSE IF CacheHas(mcCache, index)
    THEN /\ mcCache' = MoveToEnd(mcCache, index)
         /\ mcUsed' = UsedAfter(mcUsed, index, mcCache')
    ELSE /\ UNCHANGED <<mcCache, mcUsed>>

\* What getClineMessage(index) returns without awaiting storage.
LookupResult(index) ==
    IF InRange(index) /\ CacheHas(mcCache, index)
    THEN <<CacheGet(mcCache, index)>>
    ELSE <<>>

\* The part of getClineMessage(index) after loadMessageByIndex resolved with
\* message: a message that is truthy is inserted.
Loaded(index, message) ==
    IF message # <<>>
    THEN /\ mcCache' = InsertWithEviction(mcCache, mcMaxCacheSize, index,
                                          message[1])
         /\ mcUsed' = UsedAfter(mcUsed, index, mcCache')
    ELSE /\ UNCHANGED <<mcCache, mcUsed>>

\* getClineMessage(index) is called: outside the range it returns undefined,
\* on a hit the cached message, otherwise it awaits loadMessageByIndex.
GetClineMessage(c, index) ==
    /\ Settled(c)
    /\ Lookup(index)
    /\ mcCall' = [mcCall EXCEPT ![c] =
            IF InRange(index) /\ ~CacheHas(mcCache, index)
            THEN MessageCall("getClineMessage", "load", index, 0, <<>>, <<>>,
                             <<>>)
            ELSE MessageCall("getClineMessage", "done", index, 0, <<>>, <<>>,
                             LookupResult(index))]
    /\ UNCHANGED <<mcMaxCacheSize, mcMessageIds, mcFile, mcKept>>
    /\ OutsideMessages

\* loadMessageByIndex resolves and getClineMessage returns what it loaded.
GetLoaded(c) ==
    /\ mcCall[c].op = "getClineMessage"
    /\ mcCall[c].pc = "load"
    /\ LET message == loadMessageByIndex(mcFile, mcCall[c].index)
       IN  /\ Loaded(mcCall[c].index, message)
           /\ mcCall' = [mcCall EXCEPT ![c].pc = "done",
                                       ![c].result = message]
    /\ UNCHANGED <<mcMaxCacheSize, mcMessageIds, mcFile, mcKept>>
    /\ OutsideMessages

\* min(a, b)
Min(a, b) == IF a < b THEN a ELSE b

\* The start indices and limits getClineMessages is called with.
PageStarts == {0}
PageLimits == {2}

\* getClineMessages(startIndex, limit) is called: the end index is fixed
\* and the loop starts with no message collected.
GetClineMessages(c, startIndex, limit) ==
    /\ Settled(c)
    /\ mcCall' = [mcCall EXCEPT ![c] =
            MessageCall("getClineMessages", "loop", startIndex,
                        Min(startIndex + limit, Len(mcMessageIds)),
                        <<>>, <<>>, <<>>)]
    /\ UNCHANGED <<mcMaxCacheSize, mcCache, mcMessageIds, mcFile, mcUsed,
                   mcKept>>
    /\ OutsideMessages

\* One turn of the loop of getClineMessages: past the end the messages
\* collected are returned, otherwise getClineMessage(i) is called and, when
\* it resolves without storage, its message is collected and i advances.
PageLoop(c) ==
    /\ mcCall[c].op = "getClineMessages"
    /\ mcCall[c].pc = "loop"
    /\ LET i == mcCall[c].index
       IN  IF i >= mcCall[c].endIndex
           THEN /\ mcCall' = [mcCall EXCEPT ![c] = NoMessageCall]
                /\ UNCHANGED <<mcCache, mcUsed>>
           ELSE /\ Lookup(i)
                /\ mcCall' = [mcCall EXCEPT ![c] =
                        IF InRange(i) /\ ~CacheHas(mcCache, i)
                        THEN [@ EXCEPT !.pc = "load"]
                        ELSE [@ EXCEPT !.index = i + 1,
                                       !.result = @ \o LookupResult(i)]]
    /\ UNCHANGED <<mcMaxCacheSize, mcMessageIds, mcFile, mcKept>>
    /\ OutsideMessages

\* loadMessageByIndex resolves inside the loop of getClineMessages: the
\* message is collected when it is truthy.
PageLoaded(c) ==
    /\ mcCall[c].op = "getClineMessages"
    /\ mcCall[c].pc = "load"
    /\ LET message == loadMessageByIndex(mcFile, mcCall[c].index)
       IN  /\ Loaded(mcCall[c].index, message)
           /\ mcCall' = [mcCall EXCEPT ![c].pc = "loop",
                                       ![c].index = @ + 1,
                                       ![c].result = @ \o message]
    /\ UNCHANGED <<mcMaxCacheSize, mcMessageIds, mcFile, mcKept>>
    /\ OutsideMessages

\* The messages addMessage is called with.
AddedMessages == {TaskMessages[k] : k \in 1..Len(TaskMessages)}

\* addMessage(message) is called: the next index is taken, the message is
\* inserted in the cache and saveMessageToStorage is awaited.
AddMessage(c, message) ==
    /\ Settled(c)
    /\ Len(mcMessageIds) < MaxMessages
    /\ message = TaskMessages[Len(mcMessageIds) + 1]
    /\ LET index == Len(mcMessageIds)
       IN  /\ mcMessageIds' = Append(mcMessageIds, index)
           /\ mcCache' = InsertWithEviction(mcCache, mcMaxCacheSize, index,
                                            message)
           /\ mcUsed' = UsedAfter(mcUsed, index, mcCache')
           /\ mcKept' = ArraySet(mcKept, index, message)
           /\ mcCall' = [mcCall EXCEPT ![c] =
                MessageCall("addMessage", "read", index, 0, <<message>>,
                            <<>>, <<>>)]
    /\ UNCHANGED <<mcMaxCacheSize, mcFile>>
    /\ OutsideMessages

\* saveMessageToStorage has read and parsed messages.json and awaits
\* fs.writeFile of the array with messages[index] = message.
SaveReads(c) ==
    /\ mcCall[c].op = "addMessage"
    /\ mcCall[c].pc = "read"
    /\ mcCall' = [mcCall EXCEPT ![c].pc = "write",
                                ![c].read = ReadOrEmpty(mcFile)]
    /\ UNCHANGED <<mcMaxCacheSize, mcCache, mcMessageIds, mcFile, mcUsed,
                   mcKept>>
    /\ OutsideMessages

\* fs.writeFile completes and addMessage resolves.
SaveWrites(c) ==
    /\ mcCall[c].op = "addMessage"
    /\ mcCall[c].pc = "write"
    /\ mcFile' = <<ArraySet(mcCall[c].read, mcCall[c].index,
                            mcCall[c].message[1])>>
    /\ mcCall' = [mcCall EXCEPT ![c] = NoMessageCall]
    /\ UNCHANGED <<mcMaxCacheSize, mcCache, mcMessageIds, mcUsed, mcKept>>
    /\ OutsideMessages

\* clearCache()
ClearCache ==
    /\ mcCache' = <<>>
    /\ mcUsed' = <<>>
    /\ UNCHANGED <<mcMaxCacheSize, mcMessageIds, mcFile, mcCall, mcKept>>
    /\ OutsideMessages

NextMessages ==
    \/ Initialize
    \/ \E c \in Callers, index \in -1..MaxMessages : GetClineMessage(c, index)
    \/ \E c \in Callers : GetLoaded(c)
    \/ \E c \in Callers, startIndex \in PageStarts, limit \in PageLimits :
            GetClineMessages(c, startIndex, limit)
    \/ \E c \in Callers : PageLoop(c)
    \/ \E c \in Callers : PageLoaded(c)
    \/ \E c \in Callers, message \in AddedMessages : AddMessage(c, message)
    \/ \E c \in Callers : SaveReads(c)
    \/ \E c \in Callers : SaveWrites(c)
    \/ ClearCache

SpecMessages == InitMessages /\ [][NextMessages]_vars

\* ------------------------------------------------------------------------
\* Properties of calculateCostGenai
\* ------------------------------------------------------------------------

PriceFields == {"inputPrice", "outputPrice", "cacheReadsPrice"}

\* The tiers of the call's model info (none when the info has no list).
ArgTiers == IF costArgs.info.tiers = <<>> THEN <<>> ELSE costArgs.info.tiers[1]

\* The cache-read token count of the call (0 when not passed).
ArgCacheRead ==
    IF costArgs.cacheReadTokens = <<>> THEN 0 ELSE costArgs.cacheReadTokens[1]

\* The positions of the tiers whose contextWindow is at least inputTokens.
Qualifying ==
    {i \in 1..Len(ArgTiers) : ArgTiers[i].contextWindow >= costArgs.inputTokens}

\* The first of them in list order.
FirstQualifying == CHOOSE i \in Qualifying : \A j \in Qualifying : i <= j

BaseComplete == \A f \in PriceFields : costArgs.info[f] # <<>>

\* The call's tokens at given prices per 1,000,000 tokens.
Priced(inputPrice, outputPrice, cacheReadsPrice) ==
    (costArgs.inputTokens - ArgCacheRead) * inputPrice
    + costArgs.outputTokens * outputPrice
    + ArgCacheRead * cacheReadsPrice

PricedAtBase ==
    Priced(costArgs.info.inputPrice[1], costArgs.info.outputPrice[1],
           costArgs.info.cacheReadsPrice[1])

\* The call's tokens at the prices of tier i, a field the tier omits taken
\* from the base info.
PricedAtTier(i) ==
    LET price(f) == IF ArgTiers[i][f] # <<>> THEN ArgTiers[i][f][1]
                    ELSE costArgs.info[f][1]
    IN  Priced(price("inputPrice"), price("outputPrice"), price("cacheReadsPrice"))

TierComplete(i) == \A f \in PriceFields : ArgTiers[i][f] # <<>>

\* C12: when the model info lacks one of inputPrice, outputPrice,
\* cacheReadsPrice, calculateCostGenai returns undefined, for all token
\* counts.
MissingPriceGivesUndefined ==
    (costPc = "returned" /\ ~BaseComplete) => costResult = <<>>

\* Witness of C12: only outputPrice is absent, the other prices and all
\* token counts are positive, and the call returned undefined.
MissingPriceGivesUndefinedWitness ==
    /\ costPc = "returned"
    /\ costArgs.info.outputPrice = <<>>
    /\ costArgs.info.inputPrice = <<2>>
    /\ costArgs.info.cacheReadsPrice = <<1>>
    /\ costArgs.info.tiers = <<>>
    /\ costArgs.inputTokens = 2
    /\ costArgs.outputTokens = 1
    /\ costArgs.cacheReadTokens = <<1>>
    /\ costResult = <<>>

\* C13 as stated: when the selected tier supplies all three prices, the
\* call returns the tokens priced at the tier's prices, whatever the base
\* info holds.
TierDecidesDefinedness ==
    (costPc = "returned" /\ Qualifying # {} /\ TierComplete(FirstQualifying)) =>
        costResult = <<Priced(ArgTiers[FirstQualifying].inputPrice[1],
                              ArgTiers[FirstQualifying].outputPrice[1],
                              ArgTiers[FirstQualifying].cacheReadsPrice[1])>>

\* C13 as amended: whether the cost is defined is decided on the base info:
\* when the base info lacks a price the call returns undefined even if the
\* selected tier supplies all three, and whenever it returns a number with
\* such a tier selected, the number is computed from the tier's prices.
BaseDecidesDefinedness ==
    (costPc = "returned" /\ Qualifying # {} /\ TierComplete(FirstQualifying)) =>
        /\ ~BaseComplete => costResult = <<>>
        /\ costResult # <<>> =>
              costResult = <<Priced(ArgTiers[FirstQualifying].inputPrice[1],
                                    ArgTiers[FirstQualifying].outputPrice[1],
                                    ArgTiers[FirstQualifying].cacheReadsPrice[1])>>

\* Witness of C13: the base info lacks cacheReadsPrice, the selected tier
\* supplies all three prices, and the call returned undefined.
BaseDecidesDefinednessWitness ==
    /\ costPc = "returned"
    /\ costArgs.info.inputPrice = <<1>>
    /\ costArgs.info.outputPrice = <<2>>
    /\ costArgs.info.cacheReadsPrice = <<>>
    /\ Qualifying # {}
    /\ TierComplete(FirstQualifying)
    /\ costArgs.inputTokens > 0
    /\ costResult = <<>>

\* C14: with inputPrice, outputPrice and cacheReadsPrice all present, any
\* of them 0, the call returns a number.
ZeroPriceIsPresent ==
    (costPc = "returned" /\ BaseComplete) => costResult # <<>>

\* C15: with complete pricing and no applicable tier the call returns
\* (inputTokens - cacheReadTokens) * inputPrice + outputTokens * outputPrice
\* + cacheReadTokens * cacheReadsPrice, per 1,000,000 tokens, also when
\* cacheReadTokens exceeds inputTokens.
CostFormula ==
    (costPc = "returned" /\ BaseComplete /\ Qualifying = {}) =>
        costResult = <<PricedAtBase>>

\* C16 as stated: a number the call returns is non-negative.
CostNonNegative ==
    (costPc = "returned" /\ costResult # <<>>) => costResult[1] >= 0

\* C16 as amended: a number the call returns for cacheReadTokens not above
\* inputTokens is non-negative.
CostNonNegativeWithinInput ==
    (costPc = "returned" /\ costResult # <<>> /\ ArgCacheRead <= costArgs.inputTokens) =>
        costResult[1] >= 0

\* Witness of C16: part of the input was read from the cache and the call
\* returned a positive number.
CostNonNegativeWithinInputWitness ==
    /\ costPc = "returned"
    /\ costResult # <<>>
    /\ ArgCacheRead > 0
    /\ ArgCacheRead < costArgs.inputTokens
    /\ costResult[1] > 0

\* C17: a number the call returns is priced at the first tier in list
\* order whose contextWindow is at least inputTokens (the total, cached
\* tokens included; the bound itself qualifies), and at the base prices
\* when no tier qualifies or the info has no tiers.
FirstQualifyingTierApplies ==
    (costPc = "returned" /\ costResult # <<>>) =>
        costResult = IF Qualifying = {} THEN <<PricedAtBase>>
                     ELSE <<PricedAtTier(FirstQualifying)>>

\* Witness of C17: the first tier is too small for the total input though
\* not for its uncached part, the second is met exactly at its bound, and
\* the number returned is the one its prices give and no other source's.
FirstQualifyingTierAppliesWitness ==
    /\ costPc = "returned"
    /\ costResult # <<>>
    /\ Len(ArgTiers) = 2
    /\ ArgTiers[1].contextWindow < costArgs.inputTokens
    /\ ArgTiers[1].contextWindow >= costArgs.inputTokens - ArgCacheRead
    /\ ArgTiers[2].contextWindow = costArgs.inputTokens
    /\ costResult = <<PricedAtTier(2)>>
    /\ PricedAtTier(2) # PricedAtTier(1)
    /\ PricedAtTier(2) # PricedAtBase

\* The tiers that qualify with the smallest contextWindow.
SmallestQualifying ==
    {i \in Qualifying :
        \A j \in Qualifying : ArgTiers[i].contextWindow <= ArgTiers[j].contextWindow}

Ascending ==
    \A i, j \in 1..Len(ArgTiers) :
        i < j => ArgTiers[i].contextWindow <= ArgTiers[j].contextWindow

\* C18 as stated: for every tier list, the prices applied are those of a
\* qualifying tier with the smallest contextWindow.
SmallestQualifyingTierApplies ==
    (costPc = "returned" /\ costResult # <<>> /\ Qualifying # {}) =>
        \E i \in SmallestQualifying : costResult = <<PricedAtTier(i)>>

\* C18 as amended: for every tier list in ascending contextWindow order,
\* the prices applied are those of a qualifying tier with the smallest
\* contextWindow.
SmallestQualifyingTierAppliesWhenAscending ==
    (costPc = "returned" /\ costResult # <<>> /\ Qualifying # {} /\ Ascending) =>
        \E i \in SmallestQualifying : costResult = <<PricedAtTier(i)>>

\* Witness of C18: two tiers in ascending order both qualify and would
\* give different numbers.
SmallestQualifyingTierAppliesWhenAscendingWitness ==
    /\ costPc = "returned"
    /\ costResult # <<>>
    /\ Len(ArgTiers) = 2
    /\ Qualifying = {1, 2}
    /\ ArgTiers[1].contextWindow < ArgTiers[2].contextWindow
    /\ PricedAtTier(1) # PricedAtTier(2)

\* C19: with a tier selected, each price the tier defines (0 included)
\* replaces the base price and each price it omits is the base info's, not
\* zero.
TierFieldFallsBackToBase ==
    (costPc = "returned" /\ costResult # <<>> /\ Qualifying # {}) =>
        LET tier == ArgTiers[FirstQualifying]
            base == costArgs.info
        IN  costResult =
              <<Priced(IF tier.inputPrice = <<>> THEN base.inputPrice[1]
                       ELSE tier.inputPrice[1],
                       IF tier.outputPrice = <<>> THEN base.outputPrice[1]
                       ELSE tier.outputPrice[1],
                       IF tier.cacheReadsPrice = <<>> THEN base.cacheReadsPrice[1]
                       ELSE tier.cacheReadsPrice[1])>>

\* Witness of C19: the selected tier defines inputPrice as 0 and omits
\* outputPrice, and there are uncached input tokens and output tokens to
\* price.
TierFieldFallsBackToBaseWitness ==
    /\ costPc = "returned"
    /\ costResult # <<>>
    /\ Qualifying # {}
    /\ ArgTiers[FirstQualifying].inputPrice = <<0>>
    /\ ArgTiers[FirstQualifying].outputPrice = <<>>
    /\ costArgs.inputTokens > ArgCacheRead
    /\ costArgs.outputTokens > 0
    /\ costResult = <<costArgs.outputTokens * costArgs.info.outputPrice[1]
                      + ArgCacheRead * ArgTiers[FirstQualifying].cacheReadsPrice[1]>>

\* ------------------------------------------------------------------------
\* Properties of countTokens
\* ------------------------------------------------------------------------

\* C20: when the native token-count call succeeds with a defined numeric
\* total, 0 included, countTokens returns exactly that total and the
\* fallback estimator is not invoked.
NativeTotalReturned ==
    (ctNative.kind = "resolved" /\ ctNative.totalTokens # <<>>) =>
        /\ ctPc = "returned"
        /\ ctResult = ctNative.totalTokens
        /\ ctRaised = <<>>
        /\ ctSuperCalls = <<>>

\* Witness of C20: the native call answered 0 for content the estimator
\* would count otherwise, and the caller received 0.
NativeTotalReturnedWitness ==
    /\ ctPc = "returned"
    /\ ctNative = [kind |-> "resolved", totalTokens |-> <<0>>, error |-> <<>>]
    /\ Estimate(ctContent) > 0
    /\ ctResult = <<0>>
    /\ ctSuperCalls = <<>>

\* What BaseProvider.countTokens gives for a content when it returns.
DefaultCount(content) == IF Len(content) = 0 THEN 0 ELSE Estimate(content)

\* C21: when the native call succeeds with an undefined total, the default
\* estimator receives the caller's content unchanged and what countTokens
\* returns is the estimator's count for that content.
UndefinedTotalFallsBack ==
    (ctNative.kind = "resolved" /\ ctNative.totalTokens = <<>>) =>
        /\ ctPc \in {"estimator", "returned", "threw"}
        /\ ctSuperCalls = <<ctContent>>
        /\ ctPc = "returned" => ctResult = <<DefaultCount(ctContent)>>

\* Witness of C21: the native call gave no total for two different blocks
\* and the caller received the estimator's positive count for them.
UndefinedTotalFallsBackWitness ==
    /\ ctPc = "returned"
    /\ ctNative.kind = "resolved"
    /\ ctNative.totalTokens = <<>>
    /\ Len(ctContent) = 2
    /\ ctContent[1] # ctContent[2]
    /\ ctSuperCalls = <<ctContent>>
    /\ ctResult = <<Estimate(ctContent)>>
    /\ ctResult[1] > 0

\* C22: when the native call raises, the error is absorbed: the default
\* estimator receives the caller's content, what countTokens returns is the
\* estimator's count for it, and the native error never reaches the caller.
NativeFailureAbsorbed ==
    ctNative.kind = "rejected" =>
        /\ ctPc \in {"estimator", "returned", "threw"}
        /\ ctSuperCalls = <<ctContent>>
        /\ ctPc = "returned" => ctResult = <<DefaultCount(ctContent)>>
        /\ ctRaised # ctNative.error

\* Witness of C22: the native call rejected for non-empty content and the
\* caller received the estimator's positive count.
NativeFailureAbsorbedWitness ==
    /\ ctPc = "returned"
    /\ ctNative.kind = "rejected"
    /\ ctNative.error = <<"API error">>
    /\ ctRaised = <<>>
    /\ ctSuperCalls = <<ctContent>>
    /\ ctResult = <<Estimate(ctContent)>>
    /\ ctResult[1] > 0

\* ------------------------------------------------------------------------
\* Properties of getModel
\* ------------------------------------------------------------------------

\* The configured identifier as a string (the empty string when absent).
ConfiguredId == IF options.apiModelId = <<>> THEN <<>> ELSE options.apiModelId[1]

\* C24: when the configured identifier is absent or is not a key of the
\* model table, getModel returns the default model id together with the
\* default model's info.
UnknownModelResolvesToDefault ==
    (gmResult # <<>> /\ (options.apiModelId = <<>> \/ ConfiguredId \notin vertexModelIds)) =>
        /\ gmResult[1].id = vertexDefaultModelId
        /\ gmResult[1].info = vertexModels(vertexDefaultModelId)

\* C25 as stated: an identifier X:thinking whose unsuffixed form X is a key
\* of the table resolves to id X with reasoning enabled.
SuffixStrippedBeforeLookup ==
    (gmResult # <<>> /\ EndsWithThinking(ConfiguredId)
        /\ ReplaceThinking(ConfiguredId) \in vertexModelIds) =>
        /\ gmResult[1].id = ReplaceThinking(ConfiguredId)
        /\ gmResult[1].reasoning

\* C25 as amended: the table is looked up with the identifier as configured,
\* suffix included: X:thinking resolves to id X with reasoning enabled when
\* X:thinking is itself a key, and to the default model, reasoning not
\* enabled, when only X is a key.
SuffixStrippedAfterLookup ==
    (gmResult # <<>> /\ EndsWithThinking(ConfiguredId)
        /\ ReplaceThinking(ConfiguredId) \in vertexModelIds) =>
        IF ConfiguredId \in vertexModelIds
        THEN /\ gmResult[1].id = ReplaceThinking(ConfiguredId)
             /\ gmResult[1].info = vertexModels(ConfiguredId)
             /\ gmResult[1].reasoning
        ELSE /\ gmResult[1].id = vertexDefaultModelId
             /\ gmResult[1].info = vertexModels(vertexDefaultModelId)
             /\ ~gmResult[1].reasoning

\* Witness of C25: the suffixed form of a key that is listed without the
\* suffix only was configured, and getModel returned the default model.
SuffixStrippedAfterLookupWitness ==
    /\ gmResult # <<>>
    /\ ConfiguredId = <<"gemini-2.0-flash-thinking-exp-01-21", Thinking>>
    /\ ReplaceThinking(ConfiguredId) \in vertexModelIds
    /\ gmResult[1].id = vertexDefaultModelId

Releases == {i \in 1..Len(disposeLog) : disposeLog[i].method # <<>>}

HeldAtFirst == disposeLog # <<>> /\ disposeLog[1].before # <<>>

\* C27 as stated: on a provider that holds a client, the dispose() calls
\* perform exactly one release in total, by the first call, and every later
\* call performs none and leaves the state unchanged.
ReleasedExactlyOnce ==
    HeldAtFirst =>
        /\ Releases = {1}
        /\ \A i \in 2..Len(disposeLog) : disposeLog[i].after = disposeLog[i].before

\* C27 as amended: on a provider that holds a client, each dispose() calls
\* at most one disposal method, the first of close, destroy, dispose the
\* client has, and none when it has none; a dispose() that returns has
\* cleared the client, and every later dispose() performs no release and
\* leaves the state unchanged; a dispose() whose disposal method throws
\* leaves the client held, so that the next dispose() calls it again.
ReleasedOncePerCompletedDispose ==
    HeldAtFirst =>
        /\ \A i \in 1..Len(disposeLog) :
              LET call == disposeLog[i]
              IN  IF call.before = <<>>
                  THEN call.method = <<>> /\ ~call.raised /\ call.after = <<>>
                  ELSE /\ call.method = ReleaseMethodOf(call.before[1])
                       /\ call.raised => call.method # <<>>
                       /\ call.after = IF call.raised THEN call.before ELSE <<>>
        /\ \A i, j \in 1..Len(disposeLog) :
              (i < j /\ ~disposeLog[i].raised) => disposeLog[j].before = <<>>
        /\ \A i \in 2..Len(disposeLog) :
              disposeLog[i - 1].raised => disposeLog[i].before = disposeLog[i - 1].before
        /\ Cardinality({i \in Releases : ~disposeLog[i].raised}) <= 1

\* Witness of C27: the first dispose() called close() on the client, which
\* has destroy() and dispose() too, and the second found no client.
ReleasedOncePerCompletedDisposeWitness ==
    /\ Len(disposeLog) = 2
    /\ disposeLog[1].before = <<Client({"close", "destroy", "dispose"})>>
    /\ disposeLog[1].method = <<"close">>
    /\ ~disposeLog[1].raised
    /\ disposeLog[2].before = <<>>
    /\ disposeLog[2].method = <<>>
    /\ client = <<>>

\* C28: dispose() on a provider with no client calls no disposal method,
\* raises nothing and changes no state.
DisposeWithoutClientDoesNothing ==
    [][(client = <<>> /\ disposeLog' # disposeLog) =>
          /\ disposeLog' = Append(disposeLog, Disposal(<<>>, <<>>, FALSE, <<>>))
          /\ UNCHANGED <<options, client, calls, cpPc, cpCause, cpResult, cpRaised>>]_vars

\* Witness of C28: dispose() ran on a provider that never acquired a
\* client, and again afterwards.
DisposeWithoutClientDoesNothingWitness ==
    /\ Len(disposeLog) = 2
    /\ disposeLog[1] = Disposal(<<>>, <<>>, FALSE, <<>>)
    /\ disposeLog[2] = Disposal(<<>>, <<>>, FALSE, <<>>)
    /\ client = <<>>

\* Whether both an API key and a project id are configured.
KeyAndProjectConfigured ==
    /\ options.vertexApiKey \notin {<<>>, <<<<>>>>}
    /\ options.vertexProjectId \notin {<<>>, <<<<>>>>}

\* projects/<project>/locations/<region>/publishers/google/models/<id>
QualifiedPath ==
    <<"projects/">> \o options.vertexProjectId[1] \o <<"/locations/">>
    \o (IF options.vertexRegion = <<>> THEN <<"undefined">> ELSE options.vertexRegion[1])
    \o <<"/publishers/google/models/">> \o getModel(options).id

\* C29: createMessage, completePrompt and countTokens send the same model
\* identifier: the fully qualified path exactly when both an API key and a
\* project id are configured, and the bare resolved id otherwise.
SameModelPathEverywhere ==
    \A i \in 1..Len(calls) :
        calls[i].model # <<>> =>
            calls[i].model = IF KeyAndProjectConfigured THEN <<QualifiedPath>>
                             ELSE <<getModel(options).id>>

\* Witness of C29: with key and project configured, the three methods were
\* called once each and each sent the qualified path, which differs from
\* the bare id.
SameModelPathEverywhereWitness ==
    /\ Len(calls) = 3
    /\ {calls[i].op : i \in 1..3} = {"createMessage", "completePrompt", "countTokens"}
    /\ KeyAndProjectConfigured
    /\ options.vertexRegion # <<>>
    /\ \A i \in 1..3 : calls[i].model = <<QualifiedPath>>
    /\ QualifiedPath # getModel(options).id

\* ------------------------------------------------------------------------
\* Properties of HighlightCache
\* ------------------------------------------------------------------------

\* C30: after any sequence of getHighlighted, setHighlighted and clear
\* calls, the cache holds no more entries than its capacity.
CacheWithinCapacity ==
    /\ Cardinality(DOMAIN hlCache) <= maxSize
    /\ DOMAIN hlAccessOrder = DOMAIN hlCache

\* Witness of C30: a setHighlighted call found the cache full, evicted, and
\* left it at capacity.
CacheWithinCapacityWitness ==
    /\ hlLast # <<>>
    /\ hlLast[1].op = "set"
    /\ hlLast[1].evicted # {}
    /\ Cardinality(DOMAIN hlCache) = maxSize

\* ------------------------------------------------------------------------
\* Further properties of countTokens
\* ------------------------------------------------------------------------

\* C38: within one countTokens call the default estimator is invoked at
\* most once, and only after the native call raised or gave an undefined
\* total; when the estimator invoked for an undefined total fails, the
\* failure reaches the caller and the estimator is not invoked again.
EstimatorInvokedAtMostOnce ==
    /\ Len(ctSuperCalls) <= 1
    /\ ctSuperCalls # <<>> =>
          \/ ctNative.kind = "rejected"
          \/ ctNative.kind = "resolved" /\ ctNative.totalTokens = <<>>
    /\ ctPc = "estimator" => Len(ctSuperCalls) = 1
    /\ ctPc = "threw" =>
          /\ Len(ctSuperCalls) = 1
          /\ ctRaised # <<>>
          /\ ctRaised[1] \in CountErrors

\* Witness of C38: the native call gave an undefined total, the estimator
\* invoked for it failed, and the caller received that failure after one
\* invocation.
EstimatorInvokedAtMostOnceWitness ==
    /\ ctPc = "threw"
    /\ ctNative.kind = "resolved"
    /\ ctNative.totalTokens = <<>>
    /\ ctSuperCalls = <<ctContent>>
    /\ ctRaised = <<"worker failed">>

\* ------------------------------------------------------------------------
\* Calls after dispose()
\* ------------------------------------------------------------------------

\* A dispose() call has called a disposal method and cleared the client.
ReleasedAndCleared ==
    /\ client = <<>>
    /\ \E i \in 1..Len(disposeLog) :
          /\ disposeLog[i].method # <<>>
          /\ ~disposeLog[i].raised
          /\ disposeLog[i].after = <<>>

\* C39: once dispose() has released and cleared the client, a later
\* createMessage, completePrompt or countTokens call issues no request:
\* countTokens goes on to the default estimator, createMessage and
\* completePrompt end with an error.
NoRequestAfterDispose ==
    [][(ReleasedAndCleared /\ calls' # calls) =>
          LET call == calls'[Len(calls')]
          IN  /\ call.model = <<>>
              /\ call.op = "countTokens" => call.fallback /\ call.raised = <<>>
              /\ call.op = "createMessage" => call.raised # <<>>
              /\ call.op = "completePrompt" => cpPc' = "threw" /\ cpRaised' # <<>>]_vars

\* Witness of C39: close() was called and the client cleared, and after
\* that each of the three methods was called once and issued no request.
NoRequestAfterDisposeWitness ==
    /\ ReleasedAndCleared
    /\ disposeLog[1].method = <<"close">>
    /\ Len(calls) = 3
    /\ {calls[i].op : i \in 1..3} = {"createMessage", "completePrompt", "countTokens"}
    /\ \A i \in 1..3 : calls[i].model = <<>>
    /\ cpPc = "threw"

\* ------------------------------------------------------------------------
\* Further properties of HighlightCache
\* ------------------------------------------------------------------------

\* The key of the last call on the cache.
LastKey(last) == CacheKey(last.args.source, last.args.language, last.args.theme)

\* C31: when setHighlighted evicts, every entry it removes was accessed
\* less recently than every entry it keeps; a successful getHighlighted and
\* a setHighlighted make their entry the most recently accessed one and
\* leave the access order of the others as it was.
EvictsLeastRecentlyUsed ==
    [][(hlLast' # <<>> /\ hlLast'[1].op \in {"get", "set"}) =>
          LET last == hlLast'[1]
              kept == DOMAIN hlCache \ last.evicted
          IN  /\ last.evicted \subseteq DOMAIN hlCache
              /\ \A e \in last.evicted : \A k \in kept :
                    hlAccessOrder[e] < hlAccessOrder[k]
              /\ (last.op = "set" \/ last.result # <<>>) =>
                    /\ LastKey(last) \in DOMAIN hlAccessOrder'
                    /\ \A k \in DOMAIN hlAccessOrder' \ {LastKey(last)} :
                          /\ hlAccessOrder'[k] < hlAccessOrder'[LastKey(last)]
                          /\ k \in DOMAIN hlAccessOrder
                          /\ hlAccessOrder'[k] = hlAccessOrder[k]]_vars

\* Witness of C31: the cache was filled, one of its entries was accessed
\* again, and the next setHighlighted call evicted an entry that is gone
\* now, leaving only entries accessed later than the evicted one.
EvictsLeastRecentlyUsedWitness ==
    /\ hlLast # <<>>
    /\ hlLast[1].op = "set"
    /\ hlLast[1].evicted # {}
    /\ hlLast[1].evicted \cap DOMAIN hlCache = {}
    /\ Cardinality(DOMAIN hlCache) = maxSize
    /\ hlAccessCounter = maxSize + 2
    /\ \A k \in DOMAIN hlAccessOrder : hlAccessOrder[k] >= maxSize

\* C36: getHighlighted(source, language, theme) returns the html stored
\* last by setHighlighted for the same (source, language, theme) when that
\* entry has not been evicted or cleared since, whatever the html and the
\* other sources stored; otherwise it returns null.
GetReturnsStoredHtml ==
    (hlLast # <<>> /\ hlLast[1].op = "get") =>
        hlLast[1].result = IF hlLast[1].args \in DOMAIN hlStored
                           THEN <<hlStored[hlLast[1].args]>>
                           ELSE <<>>

\* C37: setHighlighted on a key that is already cached replaces that key's
\* html only and leaves the set of cached keys unchanged, also when the
\* cache is at capacity.
SetOnCachedKeyKeepsKeys ==
    [][(hlLast' # <<>> /\ hlLast'[1].op = "set" /\ LastKey(hlLast'[1]) \in DOMAIN hlCache) =>
          /\ DOMAIN hlCache' = DOMAIN hlCache
          /\ \A k \in DOMAIN hlCache \ {LastKey(hlLast'[1])} : hlCache'[k] = hlCache[k]]_vars

\* ------------------------------------------------------------------------
\* Properties of MessageCache
\* ------------------------------------------------------------------------

\* C32: after any sequence of getClineMessage, getClineMessages, addMessage
\* and clearCache calls, overlapping ones included, the cache holds no more
\* messages than the capacity it was constructed with, whatever that
\* capacity is.
MessagesWithinCapacity == Len(mcCache) <= mcMaxCacheSize

\* The keys a step removes from the cache without clearing it.
EvictedKeys ==
    IF mcCache' = <<>> THEN {}
    ELSE CacheKeys(mcCache) \ CacheKeys(mcCache')

\* The caller's getClineMessage resolves in this step.
GetResolvesIn(c) ==
    /\ mcCall'[c] # mcCall[c]
    /\ mcCall'[c].op = "getClineMessage"
    /\ mcCall'[c].pc = "done"

\* C33: an insertion that evicts removes exactly the entry whose last use
\* (load, cache hit or add) is the oldest, and a cache hit of
\* getClineMessage leaves its entry the most recently used one.
EvictsOldestUse ==
    [][/\ EvictedKeys # {} => EvictedKeys = {Head(mcUsed)}
       /\ \A c \in Callers :
            (/\ GetResolvesIn(c)
             /\ mcCall[c].pc # "load"
             /\ mcCall'[c].result # <<>>)
            => mcCache'[Len(mcCache')].index = mcCall'[c].index]_vars

\* An addMessage call has not resolved yet.
AddInProgress == \E c \in Callers : mcCall[c].op = "addMessage"

\* C34: addMessage calls, overlapping ones included, take distinct
\* consecutive indices and, once all of them have resolved, messages.json
\* holds every message at the index it was given.
NoLostUpdate ==
    /\ mcMessageIds = IndicesOf(mcKept)
    /\ ~AddInProgress =>
         \A k \in 1..Len(mcKept) :
            /\ k <= Len(ReadOrEmpty(mcFile))
            /\ ReadOrEmpty(mcFile)[k] = mcKept[k]

\* C35: getClineMessage(i) resolves with the message added or persisted at
\* index i when 0 <= i < getMessageCount(), and with undefined, without
\* reading storage or changing the cache, for every other index.
GetReturnsKept ==
    [][\A c \in Callers :
        GetResolvesIn(c) =>
            IF InRange(mcCall'[c].index)
            THEN mcCall'[c].result = mcKept[mcCall'[c].index + 1]
            ELSE /\ mcCall'[c].result = <<>>
                 /\ mcCall[c].pc # "load"
                 /\ mcCache' = mcCache]_vars

====
